---- MODULE Spec2Model ----
(***************************************************************************)
(* Model of src/tjaf.py: the TJA line scanner Tja._parse and the document  *)
(* builder Tja.to_mongo.                                                   *)
(*                                                                         *)
(* A text is a sequence of lines; a line, like every Python str, is a      *)
(* sequence of Unicode code points.  The string primitives the program     *)
(* uses (strip, upper, lower, startswith, split, re.split on \s+, int,     *)
(* float) are modelled on such sequences as CPython 3.11 computes them,    *)
(* with the character tables of its Unicode database (14.0).  One step of  *)
(* the model is one iteration of the `for raw in lines` loop; a last step  *)
(* is the commit after the loop.                                           *)
(***************************************************************************)
EXTENDS Integers, Sequences, FiniteSets, TLC

(***************************************************************************)
(* Optional values: None is Python's None, Some(x) a set value.            *)
(***************************************************************************)
None == <<>>

Some(x) == <<x>>

(***************************************************************************)
(* Characters.  A character is its code point, ord(c).  Literals of the    *)
(* program are written as sequences of one-character strings and turned    *)
(* into code points by Str.                                                *)
(***************************************************************************)
\* the printable ASCII characters chr(32) .. chr(95) and chr(97) .. chr(126)
AsciiLow == <<" ","!","\"","#","$","%","&","'","(",")","*","+",",","-",".","/",
              "0","1","2","3","4","5","6","7","8","9",":",";","<","=",">","?",
              "@","A","B","C","D","E","F","G","H","I","J","K","L","M","N","O",
              "P","Q","R","S","T","U","V","W","X","Y","Z","[","\\","]","^","_">>

AsciiHigh == <<"a","b","c","d","e","f","g","h","i","j","k","l","m","n","o","p",
               "q","r","s","t","u","v","w","x","y","z","{","|","}","~">>

IndexIn(c, alphabet) ==
  IF \E i \in 1..Len(alphabet) : alphabet[i] = c
    THEN CHOOSE i \in 1..Len(alphabet) : alphabet[i] = c
    ELSE 0

\* ord(c) of a printable ASCII character
Ord(c) ==
  IF IndexIn(c, AsciiLow) > 0 THEN 31 + IndexIn(c, AsciiLow) ELSE 96 + IndexIn(c, AsciiHigh)

\* the str of a literal
Str(s) == [i \in 1..Len(s) |-> Ord(s[i])]

\* the character c, n times
Repeat(c, n) == [i \in 1..n |-> c]

Colon == Ord(":")

Comma == Ord(",")

Dot == Ord(".")

Slash == Ord("/")

Hash == Ord("#")

Underscore == Ord("_")

Plus == Ord("+")

Minus == Ord("-")

\* the characters str.strip() removes and the pattern \s matches
Whitespace == (9..13) \cup (28..32) \cup (8192..8202) \cup {133, 160, 5760, 8232, 8233, 8239, 8287, 12288}

\* the characters int() and float() skip at both ends of their argument
NumberSpace == (9..13) \cup (8192..8202) \cup {32, 133, 160, 5760, 8232, 8233, 8239, 8287, 12288}

\* str.upper() of the characters from 128 on that it maps to one other
\* character: <<first, last, step, shift>>
UpperRanges == <<
  <<181,181,1,743>>, <<224,246,1,-32>>, <<248,254,1,-32>>, <<255,255,1,121>>,
  <<257,303,2,-1>>, <<305,305,1,-232>>, <<307,311,2,-1>>, <<314,328,2,-1>>,
  <<331,375,2,-1>>, <<378,382,2,-1>>, <<383,383,1,-300>>, <<384,384,1,195>>,
  <<387,389,2,-1>>, <<392,392,1,-1>>, <<396,396,1,-1>>, <<402,402,1,-1>>,
  <<405,405,1,97>>, <<409,409,1,-1>>, <<410,410,1,163>>, <<414,414,1,130>>,
  <<417,421,2,-1>>, <<424,424,1,-1>>, <<429,429,1,-1>>, <<432,432,1,-1>>,
  <<436,438,2,-1>>, <<441,441,1,-1>>, <<445,445,1,-1>>, <<447,447,1,56>>,
  <<453,453,1,-1>>, <<454,454,1,-2>>, <<456,456,1,-1>>, <<457,457,1,-2>>,
  <<459,459,1,-1>>, <<460,460,1,-2>>, <<462,476,2,-1>>, <<477,477,1,-79>>,
  <<479,495,2,-1>>, <<498,498,1,-1>>, <<499,499,1,-2>>, <<501,501,1,-1>>,
  <<505,543,2,-1>>, <<547,563,2,-1>>, <<572,572,1,-1>>, <<575,576,1,10815>>,
  <<578,578,1,-1>>, <<583,591,2,-1>>, <<592,592,1,10783>>,
  <<593,593,1,10780>>, <<594,594,1,10782>>, <<595,595,1,-210>>,
  <<596,596,1,-206>>, <<598,599,1,-205>>, <<601,601,1,-202>>,
  <<603,603,1,-203>>, <<604,604,1,42319>>, <<608,608,1,-205>>,
  <<609,609,1,42315>>, <<611,611,1,-207>>, <<613,613,1,42280>>,
  <<614,614,1,42308>>, <<616,616,1,-209>>, <<617,617,1,-211>>,
  <<618,618,1,42308>>, <<619,619,1,10743>>, <<620,620,1,42305>>,
  <<623,623,1,-211>>, <<625,625,1,10749>>, <<626,626,1,-213>>,
  <<629,629,1,-214>>, <<637,637,1,10727>>, <<640,640,1,-218>>,
  <<642,642,1,42307>>, <<643,643,1,-218>>, <<647,647,1,42282>>,
  <<648,648,1,-218>>, <<649,649,1,-69>>, <<650,651,1,-217>>,
  <<652,652,1,-71>>, <<658,658,1,-219>>, <<669,669,1,42261>>,
  <<670,670,1,42258>>, <<837,837,1,84>>, <<881,883,2,-1>>, <<887,887,1,-1>>,
  <<891,893,1,130>>, <<940,940,1,-38>>, <<941,943,1,-37>>, <<945,961,1,-32>>,
  <<962,962,1,-31>>, <<963,971,1,-32>>, <<972,972,1,-64>>, <<973,974,1,-63>>,
  <<976,976,1,-62>>, <<977,977,1,-57>>, <<981,981,1,-47>>, <<982,982,1,-54>>,
  <<983,983,1,-8>>, <<985,1007,2,-1>>, <<1008,1008,1,-86>>,
  <<1009,1009,1,-80>>, <<1010,1010,1,7>>, <<1011,1011,1,-116>>,
  <<1013,1013,1,-96>>, <<1016,1016,1,-1>>, <<1019,1019,1,-1>>,
  <<1072,1103,1,-32>>, <<1104,1119,1,-80>>, <<1121,1153,2,-1>>,
  <<1163,1215,2,-1>>, <<1218,1230,2,-1>>, <<1231,1231,1,-15>>,
  <<1233,1327,2,-1>>, <<1377,1414,1,-48>>, <<4304,4346,1,3008>>,
  <<4349,4351,1,3008>>, <<5112,5117,1,-8>>, <<7296,7296,1,-6254>>,
  <<7297,7297,1,-6253>>, <<7298,7298,1,-6244>>, <<7299,7300,1,-6242>>,
  <<7301,7301,1,-6243>>, <<7302,7302,1,-6236>>, <<7303,7303,1,-6181>>,
  <<7304,7304,1,35266>>, <<7545,7545,1,35332>>, <<7549,7549,1,3814>>,
  <<7566,7566,1,35384>>, <<7681,7829,2,-1>>, <<7835,7835,1,-59>>,
  <<7841,7935,2,-1>>, <<7936,7943,1,8>>, <<7952,7957,1,8>>,
  <<7968,7975,1,8>>, <<7984,7991,1,8>>, <<8000,8005,1,8>>, <<8017,8023,2,8>>,
  <<8032,8039,1,8>>, <<8048,8049,1,74>>, <<8050,8053,1,86>>,
  <<8054,8055,1,100>>, <<8056,8057,1,128>>, <<8058,8059,1,112>>,
  <<8060,8061,1,126>>, <<8112,8113,1,8>>, <<8126,8126,1,-7205>>,
  <<8144,8145,1,8>>, <<8160,8161,1,8>>, <<8165,8165,1,7>>,
  <<8526,8526,1,-28>>, <<8560,8575,1,-16>>, <<8580,8580,1,-1>>,
  <<9424,9449,1,-26>>, <<11312,11359,1,-48>>, <<11361,11361,1,-1>>,
  <<11365,11365,1,-10795>>, <<11366,11366,1,-10792>>, <<11368,11372,2,-1>>,
  <<11379,11379,1,-1>>, <<11382,11382,1,-1>>, <<11393,11491,2,-1>>,
  <<11500,11502,2,-1>>, <<11507,11507,1,-1>>, <<11520,11557,1,-7264>>,
  <<11559,11559,1,-7264>>, <<11565,11565,1,-7264>>, <<42561,42605,2,-1>>,
  <<42625,42651,2,-1>>, <<42787,42799,2,-1>>, <<42803,42863,2,-1>>,
  <<42874,42876,2,-1>>, <<42879,42887,2,-1>>, <<42892,42892,1,-1>>,
  <<42897,42899,2,-1>>, <<42900,42900,1,48>>, <<42903,42921,2,-1>>,
  <<42933,42947,2,-1>>, <<42952,42954,2,-1>>, <<42961,42961,1,-1>>,
  <<42967,42969,2,-1>>, <<42998,42998,1,-1>>, <<43859,43859,1,-928>>,
  <<43888,43967,1,-38864>>, <<65345,65370,1,-32>>, <<66600,66639,1,-40>>,
  <<66776,66811,1,-40>>, <<66967,67003,2,-39>>, <<66968,66976,2,-39>>,
  <<66980,66992,2,-39>>, <<66996,67000,2,-39>>, <<67004,67004,1,-39>>,
  <<68800,68850,1,-64>>, <<71872,71903,1,-32>>, <<93792,93823,1,-32>>,
  <<125218,125251,1,-34>>
>>

\* str.upper() of the characters it maps to several characters
UpperSpecial == <<
  <<223,<<83,83>>>>, <<329,<<700,78>>>>, <<496,<<74,780>>>>,
  <<912,<<921,776,769>>>>, <<944,<<933,776,769>>>>, <<1415,<<1333,1362>>>>,
  <<7830,<<72,817>>>>, <<7831,<<84,776>>>>, <<7832,<<87,778>>>>,
  <<7833,<<89,778>>>>, <<7834,<<65,702>>>>, <<8016,<<933,787>>>>,
  <<8018,<<933,787,768>>>>, <<8020,<<933,787,769>>>>,
  <<8022,<<933,787,834>>>>, <<8064,<<7944,921>>>>, <<8065,<<7945,921>>>>,
  <<8066,<<7946,921>>>>, <<8067,<<7947,921>>>>, <<8068,<<7948,921>>>>,
  <<8069,<<7949,921>>>>, <<8070,<<7950,921>>>>, <<8071,<<7951,921>>>>,
  <<8072,<<7944,921>>>>, <<8073,<<7945,921>>>>, <<8074,<<7946,921>>>>,
  <<8075,<<7947,921>>>>, <<8076,<<7948,921>>>>, <<8077,<<7949,921>>>>,
  <<8078,<<7950,921>>>>, <<8079,<<7951,921>>>>, <<8080,<<7976,921>>>>,
  <<8081,<<7977,921>>>>, <<8082,<<7978,921>>>>, <<8083,<<7979,921>>>>,
  <<8084,<<7980,921>>>>, <<8085,<<7981,921>>>>, <<8086,<<7982,921>>>>,
  <<8087,<<7983,921>>>>, <<8088,<<7976,921>>>>, <<8089,<<7977,921>>>>,
  <<8090,<<7978,921>>>>, <<8091,<<7979,921>>>>, <<8092,<<7980,921>>>>,
  <<8093,<<7981,921>>>>, <<8094,<<7982,921>>>>, <<8095,<<7983,921>>>>,
  <<8096,<<8040,921>>>>, <<8097,<<8041,921>>>>, <<8098,<<8042,921>>>>,
  <<8099,<<8043,921>>>>, <<8100,<<8044,921>>>>, <<8101,<<8045,921>>>>,
  <<8102,<<8046,921>>>>, <<8103,<<8047,921>>>>, <<8104,<<8040,921>>>>,
  <<8105,<<8041,921>>>>, <<8106,<<8042,921>>>>, <<8107,<<8043,921>>>>,
  <<8108,<<8044,921>>>>, <<8109,<<8045,921>>>>, <<8110,<<8046,921>>>>,
  <<8111,<<8047,921>>>>, <<8114,<<8122,921>>>>, <<8115,<<913,921>>>>,
  <<8116,<<902,921>>>>, <<8118,<<913,834>>>>, <<8119,<<913,834,921>>>>,
  <<8124,<<913,921>>>>, <<8130,<<8138,921>>>>, <<8131,<<919,921>>>>,
  <<8132,<<905,921>>>>, <<8134,<<919,834>>>>, <<8135,<<919,834,921>>>>,
  <<8140,<<919,921>>>>, <<8146,<<921,776,768>>>>, <<8147,<<921,776,769>>>>,
  <<8150,<<921,834>>>>, <<8151,<<921,776,834>>>>, <<8162,<<933,776,768>>>>,
  <<8163,<<933,776,769>>>>, <<8164,<<929,787>>>>, <<8166,<<933,834>>>>,
  <<8167,<<933,776,834>>>>, <<8178,<<8186,921>>>>, <<8179,<<937,921>>>>,
  <<8180,<<911,921>>>>, <<8182,<<937,834>>>>, <<8183,<<937,834,921>>>>,
  <<8188,<<937,921>>>>, <<64256,<<70,70>>>>, <<64257,<<70,73>>>>,
  <<64258,<<70,76>>>>, <<64259,<<70,70,73>>>>, <<64260,<<70,70,76>>>>,
  <<64261,<<83,84>>>>, <<64262,<<83,84>>>>, <<64275,<<1348,1350>>>>,
  <<64276,<<1348,1333>>>>, <<64277,<<1348,1339>>>>, <<64278,<<1358,1350>>>>,
  <<64279,<<1348,1341>>>>
>>

\* str.lower() of the characters from 128 on that it maps to one other
\* character: <<first, last, step, shift>>
LowerRanges == <<
  <<192,214,1,32>>, <<216,222,1,32>>, <<256,302,2,1>>, <<306,310,2,1>>,
  <<313,327,2,1>>, <<330,374,2,1>>, <<376,376,1,-121>>, <<377,381,2,1>>,
  <<385,385,1,210>>, <<386,388,2,1>>, <<390,390,1,206>>, <<391,391,1,1>>,
  <<393,394,1,205>>, <<395,395,1,1>>, <<398,398,1,79>>, <<399,399,1,202>>,
  <<400,400,1,203>>, <<401,401,1,1>>, <<403,403,1,205>>, <<404,404,1,207>>,
  <<406,406,1,211>>, <<407,407,1,209>>, <<408,408,1,1>>, <<412,412,1,211>>,
  <<413,413,1,213>>, <<415,415,1,214>>, <<416,420,2,1>>, <<422,422,1,218>>,
  <<423,423,1,1>>, <<425,425,1,218>>, <<428,428,1,1>>, <<430,430,1,218>>,
  <<431,431,1,1>>, <<433,434,1,217>>, <<435,437,2,1>>, <<439,439,1,219>>,
  <<440,440,1,1>>, <<444,444,1,1>>, <<452,452,1,2>>, <<453,453,1,1>>,
  <<455,455,1,2>>, <<456,456,1,1>>, <<458,458,1,2>>, <<459,475,2,1>>,
  <<478,494,2,1>>, <<497,497,1,2>>, <<498,500,2,1>>, <<502,502,1,-97>>,
  <<503,503,1,-56>>, <<504,542,2,1>>, <<544,544,1,-130>>, <<546,562,2,1>>,
  <<570,570,1,10795>>, <<571,571,1,1>>, <<573,573,1,-163>>,
  <<574,574,1,10792>>, <<577,577,1,1>>, <<579,579,1,-195>>, <<580,580,1,69>>,
  <<581,581,1,71>>, <<582,590,2,1>>, <<880,882,2,1>>, <<886,886,1,1>>,
  <<895,895,1,116>>, <<902,902,1,38>>, <<904,906,1,37>>, <<908,908,1,64>>,
  <<910,911,1,63>>, <<913,929,1,32>>, <<931,939,1,32>>, <<975,975,1,8>>,
  <<984,1006,2,1>>, <<1012,1012,1,-60>>, <<1015,1015,1,1>>,
  <<1017,1017,1,-7>>, <<1018,1018,1,1>>, <<1021,1023,1,-130>>,
  <<1024,1039,1,80>>, <<1040,1071,1,32>>, <<1120,1152,2,1>>,
  <<1162,1214,2,1>>, <<1216,1216,1,15>>, <<1217,1229,2,1>>,
  <<1232,1326,2,1>>, <<1329,1366,1,48>>, <<4256,4293,1,7264>>,
  <<4295,4295,1,7264>>, <<4301,4301,1,7264>>, <<5024,5103,1,38864>>,
  <<5104,5109,1,8>>, <<7312,7354,1,-3008>>, <<7357,7359,1,-3008>>,
  <<7680,7828,2,1>>, <<7838,7838,1,-7615>>, <<7840,7934,2,1>>,
  <<7944,7951,1,-8>>, <<7960,7965,1,-8>>, <<7976,7983,1,-8>>,
  <<7992,7999,1,-8>>, <<8008,8013,1,-8>>, <<8025,8031,2,-8>>,
  <<8040,8047,1,-8>>, <<8072,8079,1,-8>>, <<8088,8095,1,-8>>,
  <<8104,8111,1,-8>>, <<8120,8121,1,-8>>, <<8122,8123,1,-74>>,
  <<8124,8124,1,-9>>, <<8136,8139,1,-86>>, <<8140,8140,1,-9>>,
  <<8152,8153,1,-8>>, <<8154,8155,1,-100>>, <<8168,8169,1,-8>>,
  <<8170,8171,1,-112>>, <<8172,8172,1,-7>>, <<8184,8185,1,-128>>,
  <<8186,8187,1,-126>>, <<8188,8188,1,-9>>, <<8486,8486,1,-7517>>,
  <<8490,8490,1,-8383>>, <<8491,8491,1,-8262>>, <<8498,8498,1,28>>,
  <<8544,8559,1,16>>, <<8579,8579,1,1>>, <<9398,9423,1,26>>,
  <<11264,11311,1,48>>, <<11360,11360,1,1>>, <<11362,11362,1,-10743>>,
  <<11363,11363,1,-3814>>, <<11364,11364,1,-10727>>, <<11367,11371,2,1>>,
  <<11373,11373,1,-10780>>, <<11374,11374,1,-10749>>,
  <<11375,11375,1,-10783>>, <<11376,11376,1,-10782>>, <<11378,11378,1,1>>,
  <<11381,11381,1,1>>, <<11390,11391,1,-10815>>, <<11392,11490,2,1>>,
  <<11499,11501,2,1>>, <<11506,11506,1,1>>, <<42560,42604,2,1>>,
  <<42624,42650,2,1>>, <<42786,42798,2,1>>, <<42802,42862,2,1>>,
  <<42873,42875,2,1>>, <<42877,42877,1,-35332>>, <<42878,42886,2,1>>,
  <<42891,42891,1,1>>, <<42893,42893,1,-42280>>, <<42896,42898,2,1>>,
  <<42902,42920,2,1>>, <<42922,42922,1,-42308>>, <<42923,42923,1,-42319>>,
  <<42924,42924,1,-42315>>, <<42925,42925,1,-42305>>,
  <<42926,42926,1,-42308>>, <<42928,42928,1,-42258>>,
  <<42929,42929,1,-42282>>, <<42930,42930,1,-42261>>, <<42931,42931,1,928>>,
  <<42932,42946,2,1>>, <<42948,42948,1,-48>>, <<42949,42949,1,-42307>>,
  <<42950,42950,1,-35384>>, <<42951,42953,2,1>>, <<42960,42960,1,1>>,
  <<42966,42968,2,1>>, <<42997,42997,1,1>>, <<65313,65338,1,32>>,
  <<66560,66599,1,40>>, <<66736,66771,1,40>>, <<66928,66964,2,39>>,
  <<66929,66937,2,39>>, <<66941,66953,2,39>>, <<66957,66961,2,39>>,
  <<66965,66965,1,39>>, <<68736,68786,1,64>>, <<71840,71871,1,32>>,
  <<93760,93791,1,32>>, <<125184,125217,1,34>>
>>

\* str.lower() of the characters it maps to several characters
LowerSpecial == <<
  <<304,<<105,775>>>>
>>

\* the case-ignorable characters: <<first, last>>
CaseIgnorable == <<
  <<39,39>>, <<46,46>>, <<58,58>>, <<94,94>>, <<96,96>>, <<168,168>>,
  <<173,173>>, <<175,175>>, <<180,180>>, <<183,184>>, <<688,879>>,
  <<884,885>>, <<890,890>>, <<900,901>>, <<903,903>>, <<1155,1161>>,
  <<1369,1369>>, <<1375,1375>>, <<1425,1469>>, <<1471,1471>>, <<1473,1474>>,
  <<1476,1477>>, <<1479,1479>>, <<1524,1524>>, <<1536,1541>>, <<1552,1562>>,
  <<1564,1564>>, <<1600,1600>>, <<1611,1631>>, <<1648,1648>>, <<1750,1757>>,
  <<1759,1768>>, <<1770,1773>>, <<1807,1807>>, <<1809,1809>>, <<1840,1866>>,
  <<1958,1968>>, <<2027,2037>>, <<2042,2042>>, <<2045,2045>>, <<2070,2093>>,
  <<2137,2139>>, <<2184,2184>>, <<2192,2193>>, <<2200,2207>>, <<2249,2306>>,
  <<2362,2362>>, <<2364,2364>>, <<2369,2376>>, <<2381,2381>>, <<2385,2391>>,
  <<2402,2403>>, <<2417,2417>>, <<2433,2433>>, <<2492,2492>>, <<2497,2500>>,
  <<2509,2509>>, <<2530,2531>>, <<2558,2558>>, <<2561,2562>>, <<2620,2620>>,
  <<2625,2626>>, <<2631,2632>>, <<2635,2637>>, <<2641,2641>>, <<2672,2673>>,
  <<2677,2677>>, <<2689,2690>>, <<2748,2748>>, <<2753,2757>>, <<2759,2760>>,
  <<2765,2765>>, <<2786,2787>>, <<2810,2815>>, <<2817,2817>>, <<2876,2876>>,
  <<2879,2879>>, <<2881,2884>>, <<2893,2893>>, <<2901,2902>>, <<2914,2915>>,
  <<2946,2946>>, <<3008,3008>>, <<3021,3021>>, <<3072,3072>>, <<3076,3076>>,
  <<3132,3132>>, <<3134,3136>>, <<3142,3144>>, <<3146,3149>>, <<3157,3158>>,
  <<3170,3171>>, <<3201,3201>>, <<3260,3260>>, <<3263,3263>>, <<3270,3270>>,
  <<3276,3277>>, <<3298,3299>>, <<3328,3329>>, <<3387,3388>>, <<3393,3396>>,
  <<3405,3405>>, <<3426,3427>>, <<3457,3457>>, <<3530,3530>>, <<3538,3540>>,
  <<3542,3542>>, <<3633,3633>>, <<3636,3642>>, <<3654,3662>>, <<3761,3761>>,
  <<3764,3772>>, <<3782,3782>>, <<3784,3789>>, <<3864,3865>>, <<3893,3893>>,
  <<3895,3895>>, <<3897,3897>>, <<3953,3966>>, <<3968,3972>>, <<3974,3975>>,
  <<3981,3991>>, <<3993,4028>>, <<4038,4038>>, <<4141,4144>>, <<4146,4151>>,
  <<4153,4154>>, <<4157,4158>>, <<4184,4185>>, <<4190,4192>>, <<4209,4212>>,
  <<4226,4226>>, <<4229,4230>>, <<4237,4237>>, <<4253,4253>>, <<4348,4348>>,
  <<4957,4959>>, <<5906,5908>>, <<5938,5939>>, <<5970,5971>>, <<6002,6003>>,
  <<6068,6069>>, <<6071,6077>>, <<6086,6086>>, <<6089,6099>>, <<6103,6103>>,
  <<6109,6109>>, <<6155,6159>>, <<6211,6211>>, <<6277,6278>>, <<6313,6313>>,
  <<6432,6434>>, <<6439,6440>>, <<6450,6450>>, <<6457,6459>>, <<6679,6680>>,
  <<6683,6683>>, <<6742,6742>>, <<6744,6750>>, <<6752,6752>>, <<6754,6754>>,
  <<6757,6764>>, <<6771,6780>>, <<6783,6783>>, <<6823,6823>>, <<6832,6862>>,
  <<6912,6915>>, <<6964,6964>>, <<6966,6970>>, <<6972,6972>>, <<6978,6978>>,
  <<7019,7027>>, <<7040,7041>>, <<7074,7077>>, <<7080,7081>>, <<7083,7085>>,
  <<7142,7142>>, <<7144,7145>>, <<7149,7149>>, <<7151,7153>>, <<7212,7219>>,
  <<7222,7223>>, <<7288,7293>>, <<7376,7378>>, <<7380,7392>>, <<7394,7400>>,
  <<7405,7405>>, <<7412,7412>>, <<7416,7417>>, <<7468,7530>>, <<7544,7544>>,
  <<7579,7679>>, <<8125,8125>>, <<8127,8129>>, <<8141,8143>>, <<8157,8159>>,
  <<8173,8175>>, <<8189,8190>>, <<8203,8207>>, <<8216,8217>>, <<8228,8228>>,
  <<8231,8231>>, <<8234,8238>>, <<8288,8292>>, <<8294,8303>>, <<8305,8305>>,
  <<8319,8319>>, <<8336,8348>>, <<8400,8432>>, <<11388,11389>>,
  <<11503,11505>>, <<11631,11631>>, <<11647,11647>>, <<11744,11775>>,
  <<11823,11823>>, <<12293,12293>>, <<12330,12333>>, <<12337,12341>>,
  <<12347,12347>>, <<12441,12446>>, <<12540,12542>>, <<40981,40981>>,
  <<42232,42237>>, <<42508,42508>>, <<42607,42610>>, <<42612,42621>>,
  <<42623,42623>>, <<42652,42655>>, <<42736,42737>>, <<42752,42785>>,
  <<42864,42864>>, <<42888,42890>>, <<42994,42996>>, <<43000,43001>>,
  <<43010,43010>>, <<43014,43014>>, <<43019,43019>>, <<43045,43046>>,
  <<43052,43052>>, <<43204,43205>>, <<43232,43249>>, <<43263,43263>>,
  <<43302,43309>>, <<43335,43345>>, <<43392,43394>>, <<43443,43443>>,
  <<43446,43449>>, <<43452,43453>>, <<43471,43471>>, <<43493,43494>>,
  <<43561,43566>>, <<43569,43570>>, <<43573,43574>>, <<43587,43587>>,
  <<43596,43596>>, <<43632,43632>>, <<43644,43644>>, <<43696,43696>>,
  <<43698,43700>>, <<43703,43704>>, <<43710,43711>>, <<43713,43713>>,
  <<43741,43741>>, <<43756,43757>>, <<43763,43764>>, <<43766,43766>>,
  <<43867,43871>>, <<43881,43883>>, <<44005,44005>>, <<44008,44008>>,
  <<44013,44013>>, <<64286,64286>>, <<64434,64450>>, <<65024,65039>>,
  <<65043,65043>>, <<65056,65071>>, <<65106,65106>>, <<65109,65109>>,
  <<65279,65279>>, <<65287,65287>>, <<65294,65294>>, <<65306,65306>>,
  <<65342,65342>>, <<65344,65344>>, <<65392,65392>>, <<65438,65439>>,
  <<65507,65507>>, <<65529,65531>>, <<66045,66045>>, <<66272,66272>>,
  <<66422,66426>>, <<67456,67461>>, <<67463,67504>>, <<67506,67514>>,
  <<68097,68099>>, <<68101,68102>>, <<68108,68111>>, <<68152,68154>>,
  <<68159,68159>>, <<68325,68326>>, <<68900,68903>>, <<69291,69292>>,
  <<69446,69456>>, <<69506,69509>>, <<69633,69633>>, <<69688,69702>>,
  <<69744,69744>>, <<69747,69748>>, <<69759,69761>>, <<69811,69814>>,
  <<69817,69818>>, <<69821,69821>>, <<69826,69826>>, <<69837,69837>>,
  <<69888,69890>>, <<69927,69931>>, <<69933,69940>>, <<70003,70003>>,
  <<70016,70017>>, <<70070,70078>>, <<70089,70092>>, <<70095,70095>>,
  <<70191,70193>>, <<70196,70196>>, <<70198,70199>>, <<70206,70206>>,
  <<70367,70367>>, <<70371,70378>>, <<70400,70401>>, <<70459,70460>>,
  <<70464,70464>>, <<70502,70508>>, <<70512,70516>>, <<70712,70719>>,
  <<70722,70724>>, <<70726,70726>>, <<70750,70750>>, <<70835,70840>>,
  <<70842,70842>>, <<70847,70848>>, <<70850,70851>>, <<71090,71093>>,
  <<71100,71101>>, <<71103,71104>>, <<71132,71133>>, <<71219,71226>>,
  <<71229,71229>>, <<71231,71232>>, <<71339,71339>>, <<71341,71341>>,
  <<71344,71349>>, <<71351,71351>>, <<71453,71455>>, <<71458,71461>>,
  <<71463,71467>>, <<71727,71735>>, <<71737,71738>>, <<71995,71996>>,
  <<71998,71998>>, <<72003,72003>>, <<72148,72151>>, <<72154,72155>>,
  <<72160,72160>>, <<72193,72202>>, <<72243,72248>>, <<72251,72254>>,
  <<72263,72263>>, <<72273,72278>>, <<72281,72283>>, <<72330,72342>>,
  <<72344,72345>>, <<72752,72758>>, <<72760,72765>>, <<72767,72767>>,
  <<72850,72871>>, <<72874,72880>>, <<72882,72883>>, <<72885,72886>>,
  <<73009,73014>>, <<73018,73018>>, <<73020,73021>>, <<73023,73029>>,
  <<73031,73031>>, <<73104,73105>>, <<73109,73109>>, <<73111,73111>>,
  <<73459,73460>>, <<78896,78904>>, <<92912,92916>>, <<92976,92982>>,
  <<92992,92995>>, <<94031,94031>>, <<94095,94111>>, <<94176,94177>>,
  <<94179,94180>>, <<110576,110579>>, <<110581,110587>>, <<110589,110590>>,
  <<113821,113822>>, <<113824,113827>>, <<118528,118573>>, <<118576,118598>>,
  <<119143,119145>>, <<119155,119170>>, <<119173,119179>>, <<119210,119213>>,
  <<119362,119364>>, <<121344,121398>>, <<121403,121452>>, <<121461,121461>>,
  <<121476,121476>>, <<121499,121503>>, <<121505,121519>>, <<122880,122886>>,
  <<122888,122904>>, <<122907,122913>>, <<122915,122916>>, <<122918,122922>>,
  <<123184,123197>>, <<123566,123566>>, <<123628,123631>>, <<125136,125142>>,
  <<125252,125259>>, <<127995,127999>>, <<917505,917505>>, <<917536,917631>>,
  <<917760,917999>>
>>

\* the cased characters that are not case-ignorable: <<first, last>>
Cased == <<
  <<65,90>>, <<97,122>>, <<170,170>>, <<181,181>>, <<186,186>>, <<192,214>>,
  <<216,246>>, <<248,442>>, <<444,447>>, <<452,659>>, <<661,687>>,
  <<880,883>>, <<886,887>>, <<891,893>>, <<895,895>>, <<902,902>>,
  <<904,906>>, <<908,908>>, <<910,929>>, <<931,1013>>, <<1015,1153>>,
  <<1162,1327>>, <<1329,1366>>, <<1376,1416>>, <<4256,4293>>, <<4295,4295>>,
  <<4301,4301>>, <<4304,4346>>, <<4349,4351>>, <<5024,5109>>, <<5112,5117>>,
  <<7296,7304>>, <<7312,7354>>, <<7357,7359>>, <<7424,7467>>, <<7531,7543>>,
  <<7545,7578>>, <<7680,7957>>, <<7960,7965>>, <<7968,8005>>, <<8008,8013>>,
  <<8016,8023>>, <<8025,8025>>, <<8027,8027>>, <<8029,8029>>, <<8031,8061>>,
  <<8064,8116>>, <<8118,8124>>, <<8126,8126>>, <<8130,8132>>, <<8134,8140>>,
  <<8144,8147>>, <<8150,8155>>, <<8160,8172>>, <<8178,8180>>, <<8182,8188>>,
  <<8450,8450>>, <<8455,8455>>, <<8458,8467>>, <<8469,8469>>, <<8473,8477>>,
  <<8484,8484>>, <<8486,8486>>, <<8488,8488>>, <<8490,8493>>, <<8495,8500>>,
  <<8505,8505>>, <<8508,8511>>, <<8517,8521>>, <<8526,8526>>, <<8544,8575>>,
  <<8579,8580>>, <<9398,9449>>, <<11264,11387>>, <<11390,11492>>,
  <<11499,11502>>, <<11506,11507>>, <<11520,11557>>, <<11559,11559>>,
  <<11565,11565>>, <<42560,42605>>, <<42624,42651>>, <<42786,42863>>,
  <<42865,42887>>, <<42891,42894>>, <<42896,42954>>, <<42960,42961>>,
  <<42963,42963>>, <<42965,42969>>, <<42997,42998>>, <<43002,43002>>,
  <<43824,43866>>, <<43872,43880>>, <<43888,43967>>, <<64256,64262>>,
  <<64275,64279>>, <<65313,65338>>, <<65345,65370>>, <<66560,66639>>,
  <<66736,66771>>, <<66776,66811>>, <<66928,66938>>, <<66940,66954>>,
  <<66956,66962>>, <<66964,66965>>, <<66967,66977>>, <<66979,66993>>,
  <<66995,67001>>, <<67003,67004>>, <<68736,68786>>, <<68800,68850>>,
  <<71840,71903>>, <<93760,93823>>, <<119808,119892>>, <<119894,119964>>,
  <<119966,119967>>, <<119970,119970>>, <<119973,119974>>, <<119977,119980>>,
  <<119982,119993>>, <<119995,119995>>, <<119997,120003>>, <<120005,120069>>,
  <<120071,120074>>, <<120077,120084>>, <<120086,120092>>, <<120094,120121>>,
  <<120123,120126>>, <<120128,120132>>, <<120134,120134>>, <<120138,120144>>,
  <<120146,120485>>, <<120488,120512>>, <<120514,120538>>, <<120540,120570>>,
  <<120572,120596>>, <<120598,120628>>, <<120630,120654>>, <<120656,120686>>,
  <<120688,120712>>, <<120714,120744>>, <<120746,120770>>, <<120772,120779>>,
  <<122624,122633>>, <<122635,122654>>, <<125184,125251>>, <<127280,127305>>,
  <<127312,127337>>, <<127344,127369>>
>>

\* the digits 0 of the decimal digit characters; the digits d follow at +d
DecimalZeros == <<
  48, 1632, 1776, 1984, 2406, 2534, 2662, 2790, 2918, 3046, 3174, 3302, 3430,
  3558, 3664, 3792, 3872, 4160, 4240, 6112, 6160, 6470, 6608, 6784, 6800,
  6992, 7088, 7232, 7248, 42528, 43216, 43264, 43472, 43504, 43600, 44016,
  65296, 66720, 68912, 69734, 69872, 69942, 70096, 70384, 70736, 70864,
  71248, 71360, 71472, 71904, 72016, 72784, 73040, 73120, 92768, 92864,
  93008, 120782, 120792, 120802, 120812, 120822, 123200, 123632, 125264,
  130032
>>

InRanges(c, rs) == \E k \in 1..Len(rs) : rs[k][1] <= c /\ c <= rs[k][2]

\* c moved by the shift of the range that holds it, c when none does
Shift(c, rs) ==
  LET holds(k) == rs[k][1] <= c /\ c <= rs[k][2] /\ (c - rs[k][1]) % rs[k][3] = 0 IN
    IF \E k \in 1..Len(rs) : holds(k)
      THEN c + rs[CHOOSE k \in 1..Len(rs) : holds(k)][4]
      ELSE c

\* the several characters c is mapped to, <<>> when it is not in the table
Special(c, sp) ==
  IF \E k \in 1..Len(sp) : sp[k][1] = c
    THEN sp[CHOOSE k \in 1..Len(sp) : sp[k][1] = c][2]
    ELSE <<>>

\* c.upper(), a string of one to three characters
UpperChar(c) ==
  IF c < 128 THEN << IF 97 <= c /\ c <= 122 THEN c - 32 ELSE c >>
  ELSE IF Special(c, UpperSpecial) # <<>> THEN Special(c, UpperSpecial)
  ELSE << Shift(c, UpperRanges) >>

\* c.lower() of a character on its own, a string of one or two characters
LowerChar(c) ==
  IF c < 128 THEN << IF 65 <= c /\ c <= 90 THEN c + 32 ELSE c >>
  ELSE IF Special(c, LowerSpecial) # <<>> THEN Special(c, LowerSpecial)
  ELSE << Shift(c, LowerRanges) >>

IsDigit(c) ==
  IF c < 128 THEN 48 <= c /\ c <= 57
  ELSE \E k \in 1..Len(DecimalZeros) : DecimalZeros[k] <= c /\ c <= DecimalZeros[k] + 9

DigitVal(c) ==
  IF c < 128 THEN c - 48
  ELSE c - DecimalZeros[CHOOSE k \in 1..Len(DecimalZeros) :
                          DecimalZeros[k] <= c /\ c <= DecimalZeros[k] + 9]

(***************************************************************************)
(* str.upper, str.lower, str.strip, str.startswith, `in`, str.split.       *)
(***************************************************************************)
\* the strings of ss joined, by halves
RECURSIVE Concat(_)
Concat(ss) ==
  IF Len(ss) = 0 THEN <<>>
  ELSE IF Len(ss) = 1 THEN ss[1]
  ELSE Concat(SubSeq(ss, 1, Len(ss) \div 2))
         \o Concat(SubSeq(ss, Len(ss) \div 2 + 1, Len(ss)))

Upper(s) == Concat([i \in 1..Len(s) |-> UpperChar(s[i])])

\* a capital sigma is final when a cased character precedes it and none
\* follows it, case-ignorable characters skipped in both directions
FinalSigma(s, i) ==
  LET before == {j \in 1..(i - 1) : ~InRanges(s[j], CaseIgnorable)}
      after  == {j \in (i + 1)..Len(s) : ~InRanges(s[j], CaseIgnorable)}
  IN /\ before # {}
     /\ InRanges(s[CHOOSE j \in before : \A k \in before : k <= j], Cased)
     /\ \/ after = {}
        \/ ~InRanges(s[CHOOSE j \in after : \A k \in after : j <= k], Cased)

\* the lower case of the character at position i of s
LowerAt(s, i) ==
  IF s[i] = 931 THEN (IF FinalSigma(s, i) THEN <<962>> ELSE <<963>>)
  ELSE LowerChar(s[i])

Lower(s) == Concat([i \in 1..Len(s) |-> LowerAt(s, i)])

\* s without its leading characters of the set W
LStrip(s, W) ==
  IF \A i \in 1..Len(s) : s[i] \in W THEN <<>>
  ELSE SubSeq(s, CHOOSE i \in 1..Len(s) :
                   s[i] \notin W /\ \A j \in 1..(i - 1) : s[j] \in W, Len(s))

\* s without its trailing characters of the set W
RStrip(s, W) ==
  IF \A i \in 1..Len(s) : s[i] \in W THEN <<>>
  ELSE SubSeq(s, 1, CHOOSE i \in 1..Len(s) :
                      s[i] \notin W /\ \A j \in (i + 1)..Len(s) : s[j] \in W)

Strip(s) == RStrip(LStrip(s, Whitespace), Whitespace)

StartsWith(s, p) == Len(s) >= Len(p) /\ SubSeq(s, 1, Len(p)) = p

Contains(s, c) == \E i \in 1..Len(s) : s[i] = c

FirstIndex(s, c) == CHOOSE i \in 1..Len(s) : s[i] = c /\ \A j \in 1..(i - 1) : s[j] # c

\* s.split(sep): always at least one field
RECURSIVE Split(_, _)
Split(s, sep) ==
  IF Contains(s, sep)
    THEN <<SubSeq(s, 1, FirstIndex(s, sep) - 1)>>
           \o Split(SubSeq(s, FirstIndex(s, sep) + 1, Len(s)), sep)
    ELSE <<s>>

\* s.split(sep, 1) of a string that contains sep: <<before, after>>
SplitFirst(s, sep) ==
  << SubSeq(s, 1, FirstIndex(s, sep) - 1), SubSeq(s, FirstIndex(s, sep) + 1, Len(s)) >>

\* re.split(r"\s+", val)[0]
FirstToken(val) ==
  IF \E i \in 1..Len(val) : val[i] \in Whitespace
    THEN SubSeq(val, 1, (CHOOSE i \in 1..Len(val) :
                           val[i] \in Whitespace
                           /\ \A j \in 1..(i - 1) : val[j] \notin Whitespace) - 1)
    ELSE val

(***************************************************************************)
(* int(str).  A digit group is a run of decimal digit characters in which  *)
(* single underscores may separate digits.  The result is an integer; the  *)
(* conversion fails on a group of more than int_max_str_digits digits.     *)
(***************************************************************************)
IsDigitGroup(s) ==
  /\ s # <<>>
  /\ IsDigit(s[1])
  /\ IsDigit(s[Len(s)])
  /\ \A i \in 1..Len(s) : IsDigit(s[i]) \/ s[i] = Underscore
  /\ \A i \in 1..(Len(s) - 1) : ~(s[i] = Underscore /\ s[i + 1] = Underscore)

\* a sequence of decimal digits without its leading zeros
BigTrim(d) ==
  IF \A i \in 1..Len(d) : d[i] = 0 THEN <<>>
  ELSE SubSeq(d, CHOOSE i \in 1..Len(d) : d[i] # 0 /\ \A j \in 1..(i - 1) : d[j] = 0,
              Len(d))

\* the digits of a digit group, most significant first, leading zeros dropped
DigitsOf(s) ==
  LET d == SelectSeq(s, IsDigit) IN BigTrim([i \in 1..Len(d) |-> DigitVal(d[i])])

\* the integer the digits d stand for
RECURSIVE DigitsValue(_)
DigitsValue(d) ==
  IF d = <<>> THEN 0 ELSE 10 * DigitsValue(SubSeq(d, 1, Len(d) - 1)) + d[Len(d)]

DigitCount(s) == Cardinality({i \in 1..Len(s) : IsDigit(s[i])})

HasSign(s) == s # <<>> /\ Head(s) \in {Plus, Minus}

Unsigned(s) == IF HasSign(s) THEN Tail(s) ELSE s

SignOf(s) == IF s # <<>> /\ Head(s) = Minus THEN -1 ELSE 1

\* sys.get_int_max_str_digits() of an interpreter started with its defaults
int_max_str_digits == 4300

\* int(s): None stands for ValueError
ParseInt(s) ==
  LET t == RStrip(LStrip(s, NumberSpace), NumberSpace) IN
    IF IsDigitGroup(Unsigned(t)) /\ DigitCount(t) <= int_max_str_digits
      THEN Some(SignOf(t) * DigitsValue(DigitsOf(t)))
      ELSE None

(***************************************************************************)
(* Natural numbers of any size, for the digits of a float literal: a       *)
(* number is the sequence of its decimal digits, most significant first,   *)
(* without leading zeros; zero is the empty sequence.                      *)
(***************************************************************************)
Zeros(n) == [i \in 1..n |-> 0]

\* the first position after i at which a and b, of one length, differ, 0
\* when there is none
FirstDiffAfter(a, b, i) ==
  IF \E j \in (i + 1)..Len(a) : a[j] # b[j]
    THEN CHOOSE j \in (i + 1)..Len(a) :
           a[j] # b[j] /\ \A k \in (i + 1)..(j - 1) : a[k] = b[k]
    ELSE 0

\* a < b
BigLess(a, b) ==
  \/ Len(a) < Len(b)
  \/ /\ Len(a) = Len(b)
     /\ FirstDiffAfter(a, b, 0) > 0
     /\ a[FirstDiffAfter(a, b, 0)] < b[FirstDiffAfter(a, b, 0)]

\* 2 * a: the carry into a digit comes from the digit to its right alone
BigDouble(a) ==
  LET carry(i) == IF i < Len(a) /\ a[i + 1] >= 5 THEN 1 ELSE 0
      low      == [i \in 1..Len(a) |-> (2 * a[i] + carry(i)) % 10]
  IN (IF a # <<>> /\ a[1] >= 5 THEN <<1>> ELSE <<>>) \o low

\* a - b for a >= b: a digit borrows when the digits to its right are less
\* than those of b
BigSub(a, b) ==
  LET sub       == Zeros(Len(a) - Len(b)) \o b
      borrow(i) == IF /\ FirstDiffAfter(a, sub, i) > 0
                      /\ a[FirstDiffAfter(a, sub, i)] < sub[FirstDiffAfter(a, sub, i)]
                     THEN 1 ELSE 0
  IN BigTrim([i \in 1..Len(a) |-> (a[i] - sub[i] - borrow(i) + 10) % 10])

\* a * 2^k
RECURSIVE Pow2Times(_, _)
Pow2Times(a, k) == IF k = 0 \/ a = <<>> THEN a ELSE Pow2Times(BigDouble(a), k - 1)

(***************************************************************************)
(* float(str).  A float is an IEEE 754 binary64 value.  A finite value is  *)
(* sign * bits * 2^e, where bits is a binary numeral, most significant bit *)
(* first, that starts and ends with 1; zero has no bits.  Numbers are      *)
(* identified by their value as by Python's ==: the integer 0, 0.0 and     *)
(* -0.0 are the one value FloatZero.  The decimal literal is rounded to    *)
(* the nearest value, ties to the even one, as float() rounds it.          *)
(***************************************************************************)
\* sys.float_info
mant_dig == 53

min_exp == -1021

max_exp == 1024

FloatFinite(sign, bits, e) == [kind |-> "fin", sign |-> sign, bits |-> bits, e |-> e]

FloatZero == FloatFinite(1, <<>>, 0)

FloatOne == FloatFinite(1, <<1>>, 0)

FloatInf(sign) == [kind |-> "inf", sign |-> sign, bits |-> <<>>, e |-> 0]

FloatNaN == [kind |-> "nan", sign |-> 1, bits |-> <<>>, e |-> 0]

\* the least e + j, with t * 2^j, for which n < t * 2^j; tried in steps of
\* 2^k, then of smaller ones
RECURSIVE ScaleDown(_, _, _, _)
ScaleDown(n, t, e, k) ==
  IF k = 0
    THEN (IF BigLess(n, t) THEN <<n, t, e>> ELSE <<n, BigDouble(t), e + 1>>)
  ELSE IF ~BigLess(n, Pow2Times(t, k))
    THEN ScaleDown(n, Pow2Times(t, k), e + k, k)
  ELSE ScaleDown(n, t, e, k \div 4)

\* the least e - j >= min_exp, with n * 2^j, for which t <= 2 * n * 2^j,
\* for n < t
RECURSIVE ScaleUp(_, _, _, _)
ScaleUp(n, t, e, k) ==
  IF k = 0 THEN <<n, t, e>>
  ELSE IF e - k >= min_exp /\ BigLess(Pow2Times(n, k), t)
    THEN ScaleUp(Pow2Times(n, k), t, e - k, k)
  ELSE ScaleUp(n, t, e, k \div 4)

\* the first k bits of n / t after the binary point, for n < t, and the
\* rest: <<bits, r>> with n * 2^k = bits * t + r and r < t
RECURSIVE Divide(_, _, _, _)
Divide(n, t, k, bits) ==
  LET d == BigDouble(n) IN
    IF k = 0 THEN <<bits, n>>
    ELSE IF BigLess(d, t) THEN Divide(d, t, k - 1, Append(bits, 0))
    ELSE Divide(BigSub(d, t), t, k - 1, Append(bits, 1))

\* bits + 1
BitsInc(bits) ==
  IF \A i \in 1..Len(bits) : bits[i] = 1
    THEN <<1>> \o [i \in 1..Len(bits) |-> 0]
    ELSE LET z == CHOOSE i \in 1..Len(bits) :
                    bits[i] = 0 /\ \A j \in (i + 1)..Len(bits) : bits[j] = 1
         IN [i \in 1..Len(bits) |-> IF i < z THEN bits[i] ELSE IF i = z THEN 1 ELSE 0]

\* the value sign * bits * 2^e, for any bits
FloatOf(sign, bits, e) ==
  LET lead == BigTrim(bits)
      last == CHOOSE i \in 1..Len(lead) : lead[i] = 1 /\ \A j \in (i + 1)..Len(lead) : lead[j] = 0
  IN IF lead = <<>> THEN FloatZero
     ELSE IF Len(lead) + e > max_exp THEN FloatInf(sign)
     ELSE FloatFinite(sign, SubSeq(lead, 1, last), e + Len(lead) - last)

\* the binary64 nearest to sign * d * 10^e10, d a natural number
Binary64(sign, d, e10) ==
  IF d = <<>> THEN FloatZero
  ELSE IF Len(d) + e10 >= 310 THEN FloatInf(sign)
  ELSE IF Len(d) + e10 <= -324 THEN FloatZero
  ELSE
    LET n0   == IF e10 >= 0 THEN d \o Zeros(e10) ELSE d
        t0   == IF e10 >= 0 THEN <<1>> ELSE <<1>> \o Zeros(-e10)
        down == ScaleDown(n0, t0, 0, 64)
        frac == ScaleUp(down[1], down[2], down[3], 64)
        n    == frac[1]
        t    == frac[2]
        e    == frac[3]
        q    == Divide(n, t, mant_dig, <<>>)
        r2   == BigDouble(q[2])
        up   == BigLess(t, r2) \/ (r2 = t /\ q[1][mant_dig] = 1)
    IN FloatOf(sign, IF up THEN BitsInc(q[1]) ELSE q[1], e - mant_dig)

\* the value of an exponent's digit group, capped at max_exponent
max_exponent == 1000000000

ExponentOf(s) ==
  IF Len(DigitsOf(s)) > 9 THEN max_exponent ELSE DigitsValue(DigitsOf(s))

AsciiLower(s) ==
  [i \in 1..Len(s) |-> IF 65 <= s[i] /\ s[i] <= 90 THEN s[i] + 32 ELSE s[i]]

INF == Str(<<"i","n","f">>)

INFINITY == Str(<<"i","n","f","i","n","i","t","y">>)

NAN == Str(<<"n","a","n">>)

\* float(s): None stands for ValueError
ParseFloat(s) ==
  LET t    == RStrip(LStrip(s, NumberSpace), NumberSpace)
      sg   == SignOf(t)
      u    == Unsigned(t)
      lu   == AsciiLower(u)
      hasE == Contains(lu, Ord("e"))
      mant == IF hasE THEN SubSeq(u, 1, FirstIndex(lu, Ord("e")) - 1) ELSE u
      expo == IF hasE THEN SubSeq(u, FirstIndex(lu, Ord("e")) + 1, Len(u)) ELSE <<>>
      hasP == Contains(mant, Dot)
      ip   == IF hasP THEN SubSeq(mant, 1, FirstIndex(mant, Dot) - 1) ELSE mant
      fp   == IF hasP THEN SubSeq(mant, FirstIndex(mant, Dot) + 1, Len(mant)) ELSE <<>>
      okM  == /\ ip = <<>> \/ IsDigitGroup(ip)
              /\ fp = <<>> \/ IsDigitGroup(fp)
              /\ ip # <<>> \/ fp # <<>>
      okE  == ~hasE \/ IsDigitGroup(Unsigned(expo))
      ev   == IF hasE THEN SignOf(expo) * ExponentOf(Unsigned(expo)) ELSE 0
  IN
    IF lu \in {INF, INFINITY} THEN Some(FloatInf(sg))
    ELSE IF lu = NAN THEN Some(FloatNaN)
    ELSE IF okM /\ okE
      THEN Some(Binary64(sg, DigitsOf(ip \o fp), ev - DigitCount(fp)))
    ELSE None

(***************************************************************************)
(* The lines a text is built from.  Every way a line can be dispatched by  *)
(* the scanner occurs, with well-formed and malformed values.              *)
(***************************************************************************)
CatalogueText == <<
  \* 1: '  '
  <<" "," ">>,
  \* 2: '#NEXTSONG a,b,c,d'
  <<"#","N","E","X","T","S","O","N","G"," ","a",",","b",",","c",",","d">>,
  \* 3: '#nextsong e,f,g,h.ogg,-1.5,7'
  <<"#","n","e","x","t","s","o","n","g"," ","e",",","f",",","g",",","h",".","o","g","g",",","-","1",".","5",",","7">>,
  \* 4: '#NEXTSONG a,b,c,d,x,0'
  <<"#","N","E","X","T","S","O","N","G"," ","a",",","b",",","c",",","d",",","x",",","0">>,
  \* 5: '#NEXTSONG a,b,c,d,,1.5'
  <<"#","N","E","X","T","S","O","N","G"," ","a",",","b",",","c",",","d",",",",","1",".","5">>,
  \* 6: '#NEXTSONG a,b'
  <<"#","N","E","X","T","S","O","N","G"," ","a",",","b">>,
  \* 7: '#START'
  <<"#","S","T","A","R","T">>,
  \* 8: '#END'
  <<"#","E","N","D">>,
  \* 9: 'TITLE:Foo'
  <<"T","I","T","L","E",":","F","o","o">>,
  \* 10: 'OFFSET: -1.50'
  <<"O","F","F","S","E","T",":"," ","-","1",".","5","0">>,
  \* 11: 'OFFSET:bad'
  <<"O","F","F","S","E","T",":","b","a","d">>,
  \* 12: 'BPM:120'
  <<"B","P","M",":","1","2","0">>,
  \* 13: 'COURSE:Oni'
  <<"C","O","U","R","S","E",":","O","n","i">>,
  \* 14: 'COURSE:Edit'
  <<"C","O","U","R","S","E",":","E","d","i","t">>,
  \* 15: 'course: ura'
  <<"c","o","u","r","s","e",":"," ","u","r","a">>,
  \* 16: 'COURSE:Foo'
  <<"C","O","U","R","S","E",":","F","o","o">>,
  \* 17: 'LEVEL:8 x'
  <<"L","E","V","E","L",":","8"," ","x">>,
  \* 18: 'LEVEL:-3'
  <<"L","E","V","E","L",":","-","3">>,
  \* 19: 'LEVEL:bad'
  <<"L","E","V","E","L",":","b","a","d">>,
  \* 20: 'EXAM1:g,80,100,m'
  <<"E","X","A","M","1",":","g",",","8","0",",","1","0","0",",","m">>,
  \* 21: 'EXAM2:G,7,bad'
  <<"E","X","A","M","2",":","G",",","7",",","b","a","d">>,
  \* 22: 'EXAM2:g,bad,10'
  <<"E","X","A","M","2",":","g",",","b","a","d",",","1","0">>,
  \* 23: 'exam3:ok,,5'
  <<"e","x","a","m","3",":","o","k",",",",","5">>,
  \* 24: 'EXAM4:g,1'
  <<"E","X","A","M","4",":","g",",","1">>,
  \* 25: 'BRANCHSTART'
  <<"B","R","A","N","C","H","S","T","A","R","T">>,
  \* 26: '#BRANCHSTART p,1,2'
  <<"#","B","R","A","N","C","H","S","T","A","R","T"," ","p",",","1",",","2">>,
  \* 27: '#BRANCHSTART:p'
  <<"#","B","R","A","N","C","H","S","T","A","R","T",":","p">>,
  \* 28: '1010,'
  <<"1","0","1","0",",">>,
  \* 29: 'WAVE:s.OGG'
  <<"W","A","V","E",":","s",".","O","G","G">>,
  \* 30: '#NEXTSONG t:u,b,c,d'
  <<"#","N","E","X","T","S","O","N","G"," ","t",":","u",",","b",",","c",",","d">>
>>

\* lines with characters outside printable ASCII and lines too long to
\* write out, as code points
CatalogueCodes == <<
  \* 31: '\x0bcour\u017fe:\xa0on\u0131\x1f'
  <<11>> \o Str(<<"c","o","u","r">>) \o <<383>> \o Str(<<"e",":">>) \o <<160>> \o Str(<<"o","n">>) \o <<305, 31>>,
  \* 32: 'LEVEL:' + '0' * 4299 + '8\x0bx'
  Str(<<"L","E","V","E","L",":">>) \o Repeat(48, 4299) \o Str(<<"8">>) \o <<11>> \o Str(<<"x">>),
  \* 33: 'LEVEL:' + '0' * 4300 + '8'
  Str(<<"L","E","V","E","L",":">>) \o Repeat(48, 4300) \o Str(<<"8">>),
  \* 34: '\x1c#next\u017fong\xa0a,b,c,d,1e400,\u0667'
  <<28>> \o Str(<<"#","n","e","x","t">>) \o <<383>> \o Str(<<"o","n","g">>) \o <<160>> \o Str(<<"a",",","b",",","c",",","d",",","1","e","4","0","0",",">>) \o <<1639>>,
  \* 35: '#NEXTSONG a,b,c,d,0,' + '1' * 4301
  Str(<<"#","N","E","X","T","S","O","N","G"," ","a",",","b",",","c",",","d",",","0",",">>) \o Repeat(49, 4301),
  \* 36: 'EXAM3:\u212a\u03a3,\u0668\u0660,1_0,\xc9'
  Str(<<"E","X","A","M","3",":">>) \o <<8490, 931>> \o Str(<<",">>) \o <<1640, 1632>> \o Str(<<",","1","_","0",",">>) \o <<201>>,
  \* 37: 'OFFSET:\xa0-1e400'
  Str(<<"O","F","F","S","E","T",":">>) \o <<160>> \o Str(<<"-","1","e","4","0","0">>),
  \* 38: 'WAVE:a/b.\xd6GG'
  Str(<<"W","A","V","E",":","a","/","b",".">>) \o <<214>> \o Str(<<"G","G">>)
>>

Catalogue == [i \in 1..Len(CatalogueText) |-> Str(CatalogueText[i])] \o CatalogueCodes

Lines == 1..Len(Catalogue)

\* the lines of the texts explored in full
TextLines == 1..36

\* longest text explored
MaxLines == 3

(***************************************************************************)
(* Literals of the scanner.                                                *)
(***************************************************************************)
NEXTSONG == Str(<<"#","N","E","X","T","S","O","N","G">>)

START == Str(<<"#","S","T","A","R","T">>)

END == Str(<<"#","E","N","D">>)

BRANCHSTART == Str(<<"B","R","A","N","C","H","S","T","A","R","T">>)

\* the keys and the course names the scanner compares with
OFFSET == Str(<<"O","F","F","S","E","T">>)

COURSE == Str(<<"C","O","U","R","S","E">>)

LEVEL == Str(<<"L","E","V","E","L">>)

EASY == Str(<<"E","A","S","Y">>)

NORMAL == Str(<<"N","O","R","M","A","L">>)

HARD == Str(<<"H","A","R","D">>)

ONI == Str(<<"O","N","I">>)

EDIT == Str(<<"E","D","I","T">>)

URA == Str(<<"U","R","A">>)

DAN == Str(<<"D","A","N">>)

TOWER == Str(<<"T","O","W","E","R">>)

\* the scope of an EXAM line without a scope field
TOTAL == Str(<<"l">>)

CourseNames == {"easy", "normal", "hard", "oni", "ura", "dan", "tower"}

\* variant: EDIT is a course of its own
course_map_edit ==
  { << EASY, "easy" >>,
    << NORMAL, "normal" >>,
    << HARD, "hard" >>,
    << ONI, "oni" >>,
    << EDIT, "edit" >>,
    << URA, "ura" >>,
    << DAN, "dan" >>,
    << TOWER, "tower" >> }

course_map ==
  { << EASY, "easy" >>,
    << NORMAL, "normal" >>,
    << HARD, "hard" >>,
    << ONI, "oni" >>,
    << EDIT, "ura" >>,
    << URA, "ura" >>,
    << DAN, "dan" >>,
    << TOWER, "tower" >> }

\* course_map.get(k)
CourseMapGet(k) ==
  IF \E p \in course_map : p[1] = k
    THEN Some((CHOOSE p \in course_map : p[1] = k)[2])
    ELSE None

ScalarKeys ==
  { << Str(<<"T","I","T","L","E">>), "title" >>,
    << Str(<<"T","I","T","L","E","J","A">>), "title_ja" >>,
    << Str(<<"S","U","B","T","I","T","L","E">>), "subtitle" >>,
    << Str(<<"S","U","B","T","I","T","L","E","J","A">>), "subtitle_ja" >>,
    << Str(<<"W","A","V","E">>), "wave" >> }

ExamKeys ==
  { Str(<<"E","X","A","M","1">>), Str(<<"E","X","A","M","2">>),
    Str(<<"E","X","A","M","3">>), Str(<<"E","X","A","M","4">>) }

(***************************************************************************)
(* The part of one loop iteration that depends on the line alone: the      *)
(* dispatch and the values extracted from the line.                        *)
(***************************************************************************)
\* parts[i].strip() if len(parts) > i else dflt
Field(parts, i, dflt) == IF Len(parts) >= i THEN Strip(parts[i]) ELSE dflt

\* the #NEXTSONG branch; raises stands for the uncaught ValueError
NextSongCmd(line) ==
  LET parts  == Split(Strip(SubSeq(line, 10, Len(line))), Comma)
      offTxt == Field(parts, 5, <<>>)
      scoTxt == Field(parts, 6, <<>>)
      off    == IF offTxt # <<>> THEN ParseFloat(offTxt) ELSE Some(FloatZero)
      sco    == IF scoTxt # <<>> THEN ParseInt(scoTxt) ELSE Some(0)
  IN
    IF Len(parts) < 4
      THEN [kind |-> "nextsong", raises |-> FALSE, accepted |-> FALSE]
    ELSE IF off = None \/ sco = None
      THEN [kind |-> "nextsong", raises |-> TRUE, accepted |-> FALSE]
    ELSE [kind |-> "nextsong", raises |-> FALSE, accepted |-> TRUE,
          song |-> [title |-> Field(parts, 1, <<>>),
                    artist |-> Field(parts, 2, <<>>),
                    genre |-> Field(parts, 3, <<>>),
                    wave |-> Field(parts, 4, <<>>),
                    offset |-> off[1],
                    scoreInit |-> sco[1]]]

\* variant: each pass value has its own fallback to 0
ExamCmdPerField(key, val) ==
  LET exam_parts == Split(val, Comma)
      red        == ParseInt(Strip(exam_parts[2]))
      gold       == ParseInt(Strip(exam_parts[3]))
  IN
    IF Len(exam_parts) < 3
      THEN [kind |-> "exam", accepted |-> FALSE]
      ELSE [kind |-> "exam", accepted |-> TRUE,
            exam |-> [id |-> DigitVal(key[Len(key)]),
                      type |-> Lower(Strip(exam_parts[1])),
                      red_pass |-> IF red = None THEN 0 ELSE red[1],
                      gold_pass |-> IF gold = None THEN 0 ELSE gold[1],
                      scope |-> IF Len(exam_parts) > 3
                                  THEN Lower(Strip(exam_parts[4]))
                                  ELSE TOTAL]]

\* the EXAM1..EXAM4 branch
ExamCmd(key, val) ==
  LET exam_parts == Split(val, Comma)
      redTxt     == Strip(exam_parts[2])
      goldTxt    == Strip(exam_parts[3])
      red        == IF redTxt # <<>> THEN ParseInt(redTxt) ELSE Some(0)
      gold       == IF goldTxt # <<>> THEN ParseInt(goldTxt) ELSE Some(0)
      failed     == red = None \/ gold = None
  IN
    IF Len(exam_parts) < 3
      THEN [kind |-> "exam", accepted |-> FALSE]
      ELSE [kind |-> "exam", accepted |-> TRUE,
            exam |-> [id |-> DigitVal(key[Len(key)]),
                      type |-> Lower(Strip(exam_parts[1])),
                      red_pass |-> IF failed THEN 0 ELSE red[1],
                      gold_pass |-> IF failed THEN 0 ELSE gold[1],
                      scope |-> IF Len(exam_parts) > 3
                                  THEN Lower(Strip(exam_parts[4]))
                                  ELSE TOTAL]]

\* the `":" in line` branch
KeyValueCmd(line) ==
  LET kv  == SplitFirst(line, Colon)
      key == Upper(Strip(kv[1]))
      val == Strip(kv[2])
  IN
    IF \E p \in ScalarKeys : p[1] = key
      THEN [kind |-> "scalar",
            field |-> (CHOOSE p \in ScalarKeys : p[1] = key)[2],
            value |-> IF val # <<>> THEN Some(val) ELSE None]
    ELSE IF key = OFFSET
      THEN [kind |-> "offset", value |-> ParseFloat(val)]
    ELSE IF key = COURSE
      THEN [kind |-> "course", course |-> CourseMapGet(Upper(Strip(val)))]
    ELSE IF key = LEVEL
      THEN [kind |-> "level", stars |-> ParseInt(FirstToken(val))]
    ELSE IF key \in ExamKeys
      THEN ExamCmd(key, val)
    ELSE [kind |-> "otherkey"]

\* variant: the branch marker is looked for before the colon
ParseLineBranchFirst(raw) ==
  LET line == Strip(raw) IN
    IF line = <<>> THEN [kind |-> "blank"]
    ELSE IF StartsWith(Upper(line), NEXTSONG) THEN NextSongCmd(line)
    ELSE IF StartsWith(Upper(line), START) THEN [kind |-> "start"]
    ELSE IF StartsWith(Upper(line), END) THEN [kind |-> "end"]
    ELSE IF StartsWith(line, BRANCHSTART) \/ StartsWith(line, <<Hash>> \o BRANCHSTART)
      THEN [kind |-> "plain", branch |-> TRUE]
    ELSE IF Contains(line, Colon) THEN KeyValueCmd(line)
    ELSE [kind |-> "plain", branch |-> FALSE]

ParseLine(raw) ==
  LET line == Strip(raw) IN
    IF line = <<>> THEN [kind |-> "blank"]
    ELSE IF StartsWith(Upper(line), NEXTSONG) THEN NextSongCmd(line)
    ELSE IF StartsWith(Upper(line), START) THEN [kind |-> "start"]
    ELSE IF StartsWith(Upper(line), END) THEN [kind |-> "end"]
    ELSE IF Contains(line, Colon) THEN KeyValueCmd(line)
    ELSE [kind |-> "plain",
          branch |-> StartsWith(line, BRANCHSTART)
                       \/ StartsWith(line, <<Hash>> \o BRANCHSTART)]

Cmd == [i \in Lines |-> ParseLine(Catalogue[i])]

(***************************************************************************)
(* State of one parse: the fields of the Tja object, the locals of _parse, *)
(* the lines consumed so far and the position of the scan                  *)
(* ("scan": in the loop, "done": _parse returned, "failed": ValueError).   *)
(* doc is the document of the last to_mongo call, None before the first.   *)
(***************************************************************************)
VARIABLES pc, text, title, subtitle, title_ja, subtitle_ja, wave, offset,
          courses, current_course, current_exams, current_songs, in_song_section,
          doc

vars == <<pc, text, title, subtitle, title_ja, subtitle_ja, wave, offset,
          courses, current_course, current_exams, current_songs, in_song_section,
          doc>>

\* the state after Tja.__init__ has set its fields and _parse its locals
InitState ==
  [pc |-> "scan",
   title |-> None, subtitle |-> None, title_ja |-> None, subtitle_ja |-> None,
   wave |-> None, offset |-> None,
   courses |-> << >>,
   current_course |-> None, current_exams |-> << >>, current_songs |-> << >>,
   in_song_section |-> FALSE]

State ==
  [pc |-> pc,
   title |-> title, subtitle |-> subtitle, title_ja |-> title_ja,
   subtitle_ja |-> subtitle_ja, wave |-> wave, offset |-> offset,
   courses |-> courses,
   current_course |-> current_course, current_exams |-> current_exams,
   current_songs |-> current_songs, in_song_section |-> in_song_section]

\* `if current_course and current_course in self.courses`
Active(s) == s.current_course # None /\ s.current_course[1] \in DOMAIN s.courses

\* self.courses[c][k] = v
SetEntry(cs, c, k, v) == [cs EXCEPT ![c] = (k :> v) @@ @]

\* variant: the commit extends the lists already in the record
CommitExtend(s) ==
  LET c    == s.current_course[1]
      old(k) == IF k \in DOMAIN s.courses[c] THEN s.courses[c][k] ELSE << >>
      c1 == IF s.current_exams # << >>
              THEN SetEntry(s.courses, c, "exams", old("exams") \o s.current_exams)
              ELSE s.courses
      c2 == IF s.current_songs # << >>
              THEN SetEntry(c1, c, "songs", old("songs") \o s.current_songs)
              ELSE c1
  IN IF Active(s) THEN c2 ELSE s.courses

\* variant: the commit writes the buffers even when they are empty
CommitAlways(s) ==
  IF Active(s)
    THEN SetEntry(SetEntry(s.courses, s.current_course[1], "exams", s.current_exams),
                  s.current_course[1], "songs", s.current_songs)
    ELSE s.courses

\* the commit of the pending buffers into the active course's record
Commit(s) ==
  LET c  == s.current_course[1]
      c1 == IF s.current_exams # << >>
              THEN SetEntry(s.courses, c, "exams", s.current_exams)
              ELSE s.courses
      c2 == IF s.current_songs # << >>
              THEN SetEntry(c1, c, "songs", s.current_songs)
              ELSE c1
  IN IF Active(s) THEN c2 ELSE s.courses

NewCourse == [stars |-> None, branch |-> FALSE]

\* variant: a NEXTSONG line opens the dan course when no course is active
DoNextSongOpensDan(s, cmd) ==
  IF cmd.raises THEN [s EXCEPT !.pc = "failed"]
  ELSE IF cmd.accepted /\ s.current_course = None
    THEN [s EXCEPT !.courses = ("dan" :> NewCourse) @@ @,
                   !.current_course = Some("dan"),
                   !.current_songs = Append(@, cmd.song)]
  ELSE IF cmd.accepted
    THEN [s EXCEPT !.current_songs = Append(@, cmd.song)]
  ELSE s

\* variant: NEXTSONG lines are read only while a course is active
DoNextSongScoped(s, cmd) ==
  IF s.current_course = None THEN s
  ELSE IF cmd.raises THEN [s EXCEPT !.pc = "failed"]
  ELSE IF cmd.accepted
    THEN [s EXCEPT !.current_songs = Append(@, cmd.song)]
  ELSE s

DoNextSong(s, cmd) ==
  IF cmd.raises THEN [s EXCEPT !.pc = "failed"]
  ELSE IF cmd.accepted
    THEN [s EXCEPT !.current_songs = Append(@, cmd.song)]
  ELSE s

\* variant: the buffers are reset only when a course was active
DoCourseKeepOrphans(s, cmd) ==
  LET saved == Commit(s)
      made  == IF cmd.course # None /\ cmd.course[1] \notin DOMAIN saved
                 THEN (cmd.course[1] :> NewCourse) @@ saved
                 ELSE saved
  IN [s EXCEPT !.courses = made,
               !.current_course = cmd.course,
               !.current_exams = IF Active(s) THEN << >> ELSE @,
               !.current_songs = IF Active(s) THEN << >> ELSE @]

\* variant: an unrecognized value leaves the active course as it is
DoCourseKeepActive(s, cmd) ==
  LET saved == Commit(s)
      made  == IF cmd.course # None /\ cmd.course[1] \notin DOMAIN saved
                 THEN (cmd.course[1] :> NewCourse) @@ saved
                 ELSE saved
  IN [s EXCEPT !.courses = made,
               !.current_course = IF cmd.course # None THEN cmd.course ELSE @,
               !.current_exams = << >>,
               !.current_songs = << >>]

\* variant: every recognized COURSE directive makes a fresh record
DoCourseFresh(s, cmd) ==
  LET saved == Commit(s)
      made  == IF cmd.course # None
                 THEN (cmd.course[1] :> NewCourse) @@ saved
                 ELSE saved
  IN [s EXCEPT !.courses = made,
               !.current_course = cmd.course,
               !.current_exams = << >>,
               !.current_songs = << >>]

DoCourse(s, cmd) ==
  LET saved == Commit(s)
      made  == IF cmd.course # None /\ cmd.course[1] \notin DOMAIN saved
                 THEN (cmd.course[1] :> NewCourse) @@ saved
                 ELSE saved
  IN [s EXCEPT !.courses = made,
               !.current_course = cmd.course,
               !.current_exams = << >>,
               !.current_songs = << >>]

\* variant: a malformed LEVEL leaves the stars as they are
DoLevelKeep(s, cmd) ==
  IF s.current_course # None /\ cmd.stars # None
    THEN [s EXCEPT !.courses = SetEntry(@, s.current_course[1], "stars", cmd.stars)]
    ELSE s

\* variant: the ValueError of a malformed LEVEL is not caught
DoLevelUncaught(s, cmd) ==
  IF s.current_course # None /\ cmd.stars = None
    THEN [s EXCEPT !.pc = "failed"]
  ELSE IF s.current_course # None
    THEN [s EXCEPT !.courses = SetEntry(@, s.current_course[1], "stars", cmd.stars)]
  ELSE s

DoLevel(s, cmd) ==
  IF s.current_course # None
    THEN [s EXCEPT !.courses = SetEntry(@, s.current_course[1], "stars", cmd.stars)]
    ELSE s

\* variant: each EXAM line is written to the course record at once
DoExamIncremental(s, cmd) ==
  IF s.current_course # None /\ cmd.accepted
    THEN [s EXCEPT !.current_exams = Append(@, cmd.exam),
                   !.courses = SetEntry(@, s.current_course[1], "exams",
                                        Append(s.current_exams, cmd.exam))]
    ELSE s

DoExam(s, cmd) ==
  IF s.current_course # None /\ cmd.accepted
    THEN [s EXCEPT !.current_exams = Append(@, cmd.exam)]
    ELSE s

\* variant: a branch-start marker sets the flag of every course
DoPlainAll(s, cmd) ==
  IF s.current_course # None /\ cmd.branch
    THEN [s EXCEPT !.courses = [d \in DOMAIN @ |-> ("branch" :> TRUE) @@ @[d]]]
    ELSE s

DoPlain(s, cmd) ==
  IF s.current_course # None /\ cmd.branch
    THEN [s EXCEPT !.courses = SetEntry(@, s.current_course[1], "branch", TRUE)]
    ELSE s

\* variant: inside a START..END section only the markers are read
StepInSection(s, cmd) ==
  IF cmd.kind = "blank" THEN s
  ELSE IF cmd.kind = "start" THEN [s EXCEPT !.in_song_section = TRUE]
  ELSE IF cmd.kind = "end" THEN [s EXCEPT !.in_song_section = FALSE]
  ELSE IF s.in_song_section THEN s
  ELSE IF cmd.kind = "nextsong" THEN DoNextSong(s, cmd)
  ELSE IF cmd.kind = "scalar" THEN [s EXCEPT ![cmd.field] = cmd.value]
  ELSE IF cmd.kind = "offset" THEN [s EXCEPT !.offset = cmd.value]
  ELSE IF cmd.kind = "course" THEN DoCourse(s, cmd)
  ELSE IF cmd.kind = "level" THEN DoLevel(s, cmd)
  ELSE IF cmd.kind = "exam" THEN DoExam(s, cmd)
  ELSE IF cmd.kind = "plain" THEN DoPlain(s, cmd)
  ELSE s

\* one iteration of the loop over the lines
Step(s, cmd) ==
  IF cmd.kind = "blank" THEN s
  ELSE IF cmd.kind = "nextsong" THEN DoNextSong(s, cmd)
  ELSE IF cmd.kind = "start" THEN [s EXCEPT !.in_song_section = TRUE]
  ELSE IF cmd.kind = "end" THEN [s EXCEPT !.in_song_section = FALSE]
  ELSE IF cmd.kind = "scalar" THEN [s EXCEPT ![cmd.field] = cmd.value]
  ELSE IF cmd.kind = "offset" THEN [s EXCEPT !.offset = cmd.value]
  ELSE IF cmd.kind = "course" THEN DoCourse(s, cmd)
  ELSE IF cmd.kind = "level" THEN DoLevel(s, cmd)
  ELSE IF cmd.kind = "exam" THEN DoExam(s, cmd)
  ELSE IF cmd.kind = "plain" THEN DoPlain(s, cmd)
  ELSE s

\* variant: the loop's end returns without the commit
FinishNoCommit(s) == [s EXCEPT !.pc = "done"]

\* the commit after the loop
Finish(s) == [s EXCEPT !.courses = Commit(s), !.pc = "done"]

Load(s) ==
  /\ pc' = s.pc
  /\ title' = s.title
  /\ subtitle' = s.subtitle
  /\ title_ja' = s.title_ja
  /\ subtitle_ja' = s.subtitle_ja
  /\ wave' = s.wave
  /\ offset' = s.offset
  /\ courses' = s.courses
  /\ current_course' = s.current_course
  /\ current_exams' = s.current_exams
  /\ current_songs' = s.current_songs
  /\ in_song_section' = s.in_song_section

Init ==
  /\ text = << >>
  /\ pc = InitState.pc
  /\ title = InitState.title
  /\ subtitle = InitState.subtitle
  /\ title_ja = InitState.title_ja
  /\ subtitle_ja = InitState.subtitle_ja
  /\ wave = InitState.wave
  /\ offset = InitState.offset
  /\ courses = InitState.courses
  /\ current_course = InitState.current_course
  /\ current_exams = InitState.current_exams
  /\ current_songs = InitState.current_songs
  /\ in_song_section = InitState.in_song_section
  /\ doc = None

\* the loop takes the next line of the text, a line of the set S
ScanFrom(S, max) ==
  /\ pc = "scan"
  /\ Len(text) < max
  /\ doc' = doc
  /\ \E i \in S :
       /\ text' = Append(text, i)
       /\ Load(Step(State, Cmd[i]))

ScanLine == ScanFrom(TextLines, MaxLines)

\* the text is exhausted
EndOfInput ==
  /\ pc = "scan"
  /\ text' = text
  /\ doc' = doc
  /\ Load(Finish(State))

Next == ScanLine \/ EndOfInput

Spec == Init /\ [][Next]_vars

(***************************************************************************)
(* Texts about courses: the lines that open a course and the lines scoped  *)
(* to one, in longer texts.                                                *)
(***************************************************************************)
CourseLines == {2, 13, 14, 16, 17, 20, 22, 25}

\* longest text of course lines explored
MaxCourseLines == 5

ScanCourseLine == ScanFrom(CourseLines, MaxCourseLines)

NextCourse == ScanCourseLine \/ EndOfInput

SpecCourse == Init /\ [][NextCourse]_vars

(***************************************************************************)
(* The whole parse of a text as a function: the outcome of Tja(text).      *)
(***************************************************************************)
RECURSIVE Run(_, _)
Run(s, t) ==
  IF t = << >> \/ s.pc = "failed" THEN s
  ELSE Run(Step(s, Cmd[Head(t)]), Tail(t))

ParseText(t) ==
  LET r == Run(InitState, t) IN IF r.pc = "failed" THEN r ELSE Finish(r)

(***************************************************************************)
(* Tja.to_mongo: the document made from a finished parse, a song id and a  *)
(* creation time.  Numbers that the document holds as floats or that       *)
(* compare equal to floats are float values as above.                      *)
(***************************************************************************)
\* position of the last c in s, 0 when there is none
LastIndex(s, c) ==
  IF Contains(s, c)
    THEN CHOOSE i \in 1..Len(s) : s[i] = c /\ \A j \in (i + 1)..Len(s) : s[j] # c
    ELSE 0

\* os.path.basename
Basename(p) == SubSeq(p, LastIndex(p, Slash) + 1, Len(p))

\* os.path.splitext(p)[1] of a path without separator: from the last dot
\* on, unless only dots precede it
SplitExt(p) ==
  IF LastIndex(p, Dot) > 0 /\ \E j \in 1..(LastIndex(p, Dot) - 1) : p[j] # Dot
    THEN SubSeq(p, LastIndex(p, Dot), Len(p))
    ELSE << >>

\* e.lstrip(".")
LStripDots(s) == LStrip(s, {Dot})

MP3 == Str(<<"m","p","3">>)

MusicType(s) ==
  LET e   == IF s.wave # None THEN SplitExt(Basename(s.wave[1])) ELSE << >>
      ext == IF e # << >> THEN Lower(LStripDots(e)) ELSE << >>
  IN IF ext # << >> THEN ext ELSE MP3

\* a or b, for optional values
OptOr(a, b) == IF a # None THEN a ELSE b

CourseOrder == <<"easy", "normal", "hard", "oni", "ura", "dan", "tower">>

\* variant: an absent course is an empty record
CoursesOutEmpty(s) ==
  [name \in {CourseOrder[i] : i \in 1..Len(CourseOrder)} |->
     IF name \in DOMAIN s.courses THEN Some(s.courses[name]) ELSE Some(NewCourse)]

\* the course table: a copy of the record, or None
CoursesOut(s) ==
  [name \in {CourseOrder[i] : i \in 1..Len(CourseOrder)} |->
     IF name \in DOMAIN s.courses THEN Some(s.courses[name]) ELSE None]

\* variant: the document passes the parsed OFFSET on
DocOffsetParsed(s) == IF s.offset # None THEN s.offset[1] ELSE FloatZero

\* the document's offset is fixed
DocOffset(s) == FloatZero

Lang(ja, cn) == [ja |-> ja, en |-> None, cn |-> cn, tw |-> None, ko |-> None]

ToMongoDoc(s, song_id, created_ns) ==
  [id |-> song_id,
   type |-> "tja",
   title |-> s.title,
   subtitle |-> s.subtitle,
   title_lang |-> Lang(OptOr(s.title_ja, s.title), s.title_ja),
   subtitle_lang |-> Lang(OptOr(s.subtitle_ja, s.subtitle), s.subtitle_ja),
   courses |-> CoursesOut(s),
   enabled |-> FALSE,
   category_id |-> None,
   music_type |-> MusicType(s),
   offset |-> DocOffset(s),
   skin_id |-> None,
   preview |-> 0,
   volume |-> FloatOne,
   maker_id |-> None,
   hash |-> None,
   order |-> song_id,
   created_ns |-> created_ns]

\* the song ids and creation times a caller passes
SongIds == {"7", "8"}

Stamps == {1, 2}

\* a call of to_mongo on the parsed chart
ToMongo ==
  /\ pc = "done"
  /\ \E song_id \in SongIds, created_ns \in Stamps :
       doc' = Some(ToMongoDoc(State, song_id, created_ns))
  /\ UNCHANGED <<pc, text, title, subtitle, title_ja, subtitle_ja, wave, offset,
                 courses, current_course, current_exams, current_songs,
                 in_song_section>>

(***************************************************************************)
(* Texts for the document: metadata lines and a few course lines.          *)
(***************************************************************************)
DocLines == {9, 10, 11, 13, 14, 17, 20, 29, 37, 38}

\* longest text explored before the document is made
MaxDocLines == 3

ScanDocLine == ScanFrom(DocLines, MaxDocLines)

NextDoc == ScanDocLine \/ EndOfInput \/ ToMongo

SpecDoc == Init /\ [][NextDoc]_vars

(***************************************************************************)
(* Lines by what their text says.  These classes are read off the text of  *)
(* the catalogue lines, not off the scanner's dispatch, and are what the   *)
(* properties below speak about.                                           *)
(***************************************************************************)
LineTexts == [i \in Lines |-> Strip(Catalogue[i])]

\* the line as the scanner sees it
LineText(i) == LineTexts[i]

ColonLines == {i \in Lines : Contains(LineText(i), Colon)}

NextSongLines == {i \in Lines : StartsWith(Upper(LineText(i)), NEXTSONG)}

MarkerLines ==
  {i \in Lines \ NextSongLines :
     StartsWith(Upper(LineText(i)), START) \/ StartsWith(Upper(LineText(i)), END)}

KeyValueLines ==
  ColonLines \ (NextSongLines \cup MarkerLines)

Keys == [i \in ColonLines |-> Upper(Strip(SplitFirst(LineText(i), Colon)[1]))]

\* the key of a line that holds a colon
KeyOf(i) == Keys[i]

Values == [i \in ColonLines |-> Strip(SplitFirst(LineText(i), Colon)[2])]

\* the value of a line that holds a colon
ValOf(i) == Values[i]

CourseDirectives == {i \in KeyValueLines : KeyOf(i) = COURSE}

LevelLines == {i \in KeyValueLines : KeyOf(i) = LEVEL}

ExamLines == {i \in KeyValueLines : KeyOf(i) \in ExamKeys}

\* the stars a LEVEL line gives: int(re.split(r"\s+", val)[0]), None when it
\* raises ValueError
LevelStars == [i \in LevelLines |-> ParseInt(FirstToken(ValOf(i)))]

BranchLines ==
  {i \in Lines \ (NextSongLines \cup MarkerLines \cup KeyValueLines) :
     StartsWith(LineText(i), BRANCHSTART) \/ StartsWith(LineText(i), <<Hash>> \o BRANCHSTART)}

\* the course a COURSE directive names, None when its value is no alias
NamedCourse(i) ==
  LET v == Upper(ValOf(i)) IN
    IF v = EASY THEN Some("easy")
    ELSE IF v = NORMAL THEN Some("normal")
    ELSE IF v = HARD THEN Some("hard")
    ELSE IF v = ONI THEN Some("oni")
    ELSE IF v \in { EDIT, URA } THEN Some("ura")
    ELSE IF v = DAN THEN Some("dan")
    ELSE IF v = TOWER THEN Some("tower")
    ELSE None

RecognizedCourses == {i \in CourseDirectives : NamedCourse(i) # None}

UnrecognizedCourses == CourseDirectives \ RecognizedCourses

ExamFields(i) == Split(ValOf(i), Comma)

SongFields(i) == Split(Strip(SubSeq(LineText(i), 10, Len(LineText(i)))), Comma)

\* EXAM lines with at least 3 fields, NEXTSONG lines with at least 4
AcceptedExams == {i \in ExamLines : Len(ExamFields(i)) >= 3}

AcceptedSongs == {i \in NextSongLines : Len(SongFields(i)) >= 4}

ShortSongs == NextSongLines \ AcceptedSongs

\* a field that is present and not blank
Present(fields, k) == Len(fields) >= k /\ Strip(fields[k]) # <<>>

\* NEXTSONG lines with >= 4 fields whose offset is present and rejected by
\* float(), or whose scoreInit is present and rejected by int(): no integer
\* literal, or one of more than int_max_str_digits digits
BadSongs ==
  {i \in AcceptedSongs :
     \/ Present(SongFields(i), 5) /\ ParseFloat(Strip(SongFields(i)[5])) = None
     \/ Present(SongFields(i), 6) /\ ParseInt(Strip(SongFields(i)[6])) = None}

GoodSongs == AcceptedSongs \ BadSongs

\* position of the last COURSE directive of a text, 0 when there is none
LastCourseAt(t) ==
  IF \E k \in 1..Len(t) : t[k] \in CourseDirectives
    THEN CHOOSE k \in 1..Len(t) :
           t[k] \in CourseDirectives /\ \A j \in (k + 1)..Len(t) : t[j] \notin CourseDirectives
    ELSE 0

\* position of the last COURSE directive before position k, 0 when none
CourseBefore(t, k) == LastCourseAt(SubSeq(t, 1, k - 1))

\* the course active when line k of the text is read, None when none is
ActiveAt(t, k) ==
  IF CourseBefore(t, k) = 0 THEN None ELSE NamedCourse(t[CourseBefore(t, k)])

\* the text without its line k
Remove(t, k) == SubSeq(t, 1, k - 1) \o SubSeq(t, k + 1, Len(t))

\* the records of the accepted EXAM (NEXTSONG) lines after position k
RECURSIVE ExamsIn(_)
ExamsIn(t) ==
  IF t = << >> THEN << >>
  ELSE (IF Head(t) \in AcceptedExams THEN <<Cmd[Head(t)].exam>> ELSE << >>) \o ExamsIn(Tail(t))

RECURSIVE SongsIn(_)
SongsIn(t) ==
  IF t = << >> THEN << >>
  ELSE (IF Head(t) \in GoodSongs THEN <<Cmd[Head(t)].song>> ELSE << >>) \o SongsIn(Tail(t))

After(t, k) == SubSeq(t, k + 1, Len(t))

\* the ParsedChart of a finished parse, "failed" for an aborted one
Chart(s) ==
  IF s.pc = "failed" THEN [pc |-> "failed"]
  ELSE [pc |-> s.pc, title |-> s.title, subtitle |-> s.subtitle,
        title_ja |-> s.title_ja, subtitle_ja |-> s.subtitle_ja,
        wave |-> s.wave, offset |-> s.offset, courses |-> s.courses]

Last(t) == t[Len(t)]

(***************************************************************************)
(* C1: end-of-input commit.  When the parse has finished and the last      *)
(* COURSE directive of the text is a recognized one, the accepted EXAM     *)
(* lines after it, if any, are exactly the exams list of that course's     *)
(* final record, in line order; likewise the NEXTSONG lines and songs.     *)
(***************************************************************************)
EndOfInputCommit ==
  (pc = "done" /\ LastCourseAt(text) > 0 /\ text[LastCourseAt(text)] \in RecognizedCourses)
    => LET c == NamedCourse(text[LastCourseAt(text)])[1]
           E == ExamsIn(After(text, LastCourseAt(text)))
           S == SongsIn(After(text, LastCourseAt(text)))
       IN /\ c \in DOMAIN courses
          /\ E # << >> => "exams" \in DOMAIN courses[c] /\ courses[c].exams = E
          /\ S # << >> => "songs" \in DOMAIN courses[c] /\ courses[c].songs = S

\* a finished parse whose last course has two different exams and a song
EndOfInputCommitWitness ==
  /\ pc = "done"
  /\ LastCourseAt(text) > 0
  /\ text[LastCourseAt(text)] \in RecognizedCourses
  /\ LET E == ExamsIn(After(text, LastCourseAt(text)))
         S == SongsIn(After(text, LastCourseAt(text)))
     IN Len(E) = 2 /\ E[1] # E[2] /\ Len(S) = 1

(***************************************************************************)
(* C2 as stated: for a text with no COURSE directive the parse ends with   *)
(* an empty courses mapping and with the outcome of the same text without  *)
(* its EXAM and NEXTSONG lines.                                            *)
(***************************************************************************)
RECURSIVE WithoutExamsAndSongs(_)
WithoutExamsAndSongs(t) ==
  IF t = << >> THEN << >>
  ELSE (IF Head(t) \in ExamLines \cup NextSongLines THEN << >> ELSE <<Head(t)>>)
         \o WithoutExamsAndSongs(Tail(t))

NoCourseText == \A k \in 1..Len(text) : text[k] \notin CourseDirectives

NoCourseNoEffectAlways ==
  (pc \in {"done", "failed"} /\ NoCourseText)
    => /\ courses = << >>
       /\ Chart(State) = Chart(ParseText(WithoutExamsAndSongs(text)))

(***************************************************************************)
(* C2, amended: for a text with no COURSE directive that parses without    *)
(* failure, the courses mapping is empty and the ParsedChart is that of    *)
(* the same text without its EXAM and NEXTSONG lines.                      *)
(***************************************************************************)
NoCourseNoEffect ==
  (pc = "done" /\ NoCourseText)
    => /\ courses = << >>
       /\ Chart(State) = Chart(ParseText(WithoutExamsAndSongs(text)))

\* a finished parse of a text with a title, an accepted song, an accepted
\* exam and no COURSE directive
NoCourseNoEffectWitness ==
  /\ pc = "done"
  /\ NoCourseText
  /\ title # None
  /\ \E k \in 1..Len(text) : text[k] \in GoodSongs
  /\ \E k \in 1..Len(text) : text[k] \in AcceptedExams

(***************************************************************************)
(* C3: a NEXTSONG line with at least 4 fields whose offset is present and  *)
(* not a float literal, or whose scoreInit is present and not an integer   *)
(* literal that int() accepts, aborts the parse at that line, with or      *)
(* without an active course and whatever precedes it; a NEXTSONG line with *)
(* fewer than 4 fields never aborts it.                                    *)
(***************************************************************************)
BadSongAborts ==
  \A k \in 1..Len(text) :
    /\ text[k] \in BadSongs => pc = "failed" /\ k = Len(text)
    /\ (text[k] \in ShortSongs /\ k = Len(text)) => pc # "failed"

\* a parse aborted by a NEXTSONG line read while a course with a pending
\* exam was active
BadSongAbortsWitness ==
  /\ pc = "failed"
  /\ Last(text) \in BadSongs
  /\ current_course # None
  /\ current_exams # << >>

(***************************************************************************)
(* C4: nothing else aborts the parse.  A text without a NEXTSONG line of   *)
(* the aborting kind is never in the failed state, and its scan can always *)
(* be ended, whatever malformed OFFSET, LEVEL, EXAM or COURSE values and   *)
(* unknown keys it holds.                                                  *)
(***************************************************************************)
NoOtherAbort ==
  (\A k \in 1..Len(text) : text[k] \notin BadSongs)
    => pc \in {"scan", "done"} /\ (pc = "scan" => ENABLED EndOfInput)

\* a finished parse that read a malformed OFFSET, then a malformed LEVEL
\* and an EXAM with a non-numeric pass value under an active course
NoOtherAbortWitness ==
  /\ pc = "done"
  /\ offset = None
  /\ \E k \in 1..Len(text) :
       text[k] \in KeyValueLines /\ KeyOf(text[k]) = OFFSET
  /\ \E k \in 1..Len(text) :
       /\ text[k] \in LevelLines \cup AcceptedExams
       /\ ActiveAt(text, k) # None
       /\ \/ text[k] \in LevelLines /\ LevelStars[text[k]] = None
          \/ text[k] \in AcceptedExams /\ ParseInt(ExamFields(text[k])[2]) = None

(***************************************************************************)
(* C5: an EXAM1..EXAM4 line with at least 3 fields read while a course is  *)
(* active appends exactly one record to the pending exams.  If red_pass or *)
(* gold_pass is non-blank and not an integer, both passes of that record   *)
(* are 0; otherwise a blank pass is 0 and a non-blank one is its integer.  *)
(***************************************************************************)
BadPass(f) == Strip(f) # <<>> /\ ParseInt(Strip(f)) = None

PassValue(f) == IF Strip(f) = <<>> THEN 0 ELSE ParseInt(Strip(f))[1]

ExamAppendStep(i) ==
  (text' = Append(text, i) /\ current_course # None)
    => /\ Len(current_exams') = Len(current_exams) + 1
       /\ SubSeq(current_exams', 1, Len(current_exams)) = current_exams
       /\ LET r    == Last(current_exams')
              red  == ExamFields(i)[2]
              gold == ExamFields(i)[3]
          IN IF BadPass(red) \/ BadPass(gold)
               THEN r.red_pass = 0 /\ r.gold_pass = 0
               ELSE r.red_pass = PassValue(red) /\ r.gold_pass = PassValue(gold)

ExamAppend == [][\A i \in AcceptedExams : ExamAppendStep(i)]_vars

\* an EXAM line with red_pass 7 and a non-numeric gold_pass was appended
\* after an EXAM line with a blank red_pass and gold_pass 5
ExamAppendWitness ==
  /\ pc = "scan"
  /\ current_course # None
  /\ Len(text) >= 2
  /\ Last(text) \in AcceptedExams
  /\ ~BadPass(ExamFields(Last(text))[2])
  /\ PassValue(ExamFields(Last(text))[2]) = 7
  /\ BadPass(ExamFields(Last(text))[3])
  /\ text[Len(text) - 1] \in AcceptedExams
  /\ Strip(ExamFields(text[Len(text) - 1])[2]) = <<>>
  /\ Len(current_exams) = 2
  /\ current_exams[1].red_pass = 0 /\ current_exams[1].gold_pass = 5
  /\ current_exams[2].red_pass = 0 /\ current_exams[2].gold_pass = 0

(***************************************************************************)
(* C6: the keys of the courses mapping are among easy, normal, hard, oni,  *)
(* ura, dan and tower, and a COURSE directive whose value is EDIT or URA   *)
(* in any letter case makes the one record `ura` the active course.        *)
(***************************************************************************)
UraAliases == { EDIT, URA }

CourseNormalization ==
  /\ DOMAIN courses \subseteq CourseNames
  /\ (text # << >> /\ pc # "failed" /\ Last(text) \in CourseDirectives
        /\ Upper(ValOf(Last(text))) \in UraAliases)
       => current_course = Some("ura") /\ "ura" \in DOMAIN courses

\* a finished parse of a text with an Edit block holding a LEVEL and a later
\* ura directive: one record, with the stars of the Edit block
CourseNormalizationWitness ==
  /\ pc = "done"
  /\ DOMAIN courses = {"ura"}
  /\ courses["ura"].stars # None
  /\ current_course = Some("ura")
  /\ \E j, k \in 1..Len(text) :
       /\ j + 1 < k
       /\ text[j] \in CourseDirectives /\ Upper(ValOf(text[j])) = EDIT
       /\ text[j + 1] \in LevelLines
       /\ text[k] \in CourseDirectives /\ ValOf(text[k]) = Str(<<"u","r","a">>)

(***************************************************************************)
(* C7: a COURSE directive naming a course that already has a record makes  *)
(* that record the active one and leaves its stars and branch values as    *)
(* they were; the pending exams and songs are empty afterwards.            *)
(***************************************************************************)
RedeclareStep(i) ==
  (text' = Append(text, i) /\ NamedCourse(i)[1] \in DOMAIN courses)
    => LET c == NamedCourse(i)[1] IN
         /\ c \in DOMAIN courses'
         /\ courses'[c].stars = courses[c].stars
         /\ courses'[c].branch = courses[c].branch
         /\ current_course' = Some(c)
         /\ current_exams' = << >>
         /\ current_songs' = << >>

Redeclare == [][\A i \in RecognizedCourses : RedeclareStep(i)]_vars

\* a course with stars set and branch true was declared again right after
\* an accepted EXAM or NEXTSONG line of its block
RedeclareWitness ==
  /\ pc = "scan"
  /\ Len(text) >= 3
  /\ Last(text) \in RecognizedCourses
  /\ text[Len(text) - 1] \in AcceptedExams \cup GoodSongs
  /\ ActiveAt(text, Len(text) - 1) = NamedCourse(Last(text))
  /\ courses[current_course[1]].stars # None
  /\ courses[current_course[1]].branch
  /\ current_exams = << >>
  /\ current_songs = << >>

(***************************************************************************)
(* C8: course scoping.  In a finished parse, taking any one LEVEL, EXAM,   *)
(* NEXTSONG or branch-start line out of the text leaves the set of courses *)
(* and every record other than that of the course active at that line as   *)
(* they are; when no course is active at the line, the whole courses       *)
(* mapping stays as it is.                                                 *)
(***************************************************************************)
ScopedLines == LevelLines \cup ExamLines \cup NextSongLines \cup BranchLines

CourseScoping ==
  pc = "done" =>
    \A k \in 1..Len(text) :
      text[k] \in ScopedLines =>
        LET without == ParseText(Remove(text, k)).courses
            a       == ActiveAt(text, k)
        IN /\ DOMAIN without = DOMAIN courses
           /\ \A d \in DOMAIN courses :
                (a = None \/ d # a[1]) => courses[d] = without[d]

\* a finished parse of a text that starts with an accepted NEXTSONG line,
\* has two courses, and has a scoped line that changed its course's record
CourseScopingWitness ==
  /\ pc = "done"
  /\ Len(text) >= 4
  /\ text[1] \in GoodSongs
  /\ Cardinality(DOMAIN courses) = 2
  /\ \E k \in 1..Len(text) :
       /\ text[k] \in ScopedLines
       /\ ActiveAt(text, k) # None
       /\ ParseText(Remove(text, k)).courses # courses

(***************************************************************************)
(* C9: a COURSE directive with an unrecognized value commits the non-empty *)
(* pending exams and songs to the course that was active, changes nothing  *)
(* else in the courses mapping, and leaves no course active and both       *)
(* buffers empty.  In a finished parse, taking out a LEVEL, EXAM, NEXTSONG *)
(* or branch-start line whose most recent COURSE directive is unrecognized *)
(* leaves the courses mapping as it is.                                    *)
(***************************************************************************)
WithPending(rec, key, buf) == IF buf # << >> THEN (key :> buf) @@ rec ELSE rec

UnknownCourseStep(i) ==
  text' = Append(text, i) =>
    /\ current_course' = None
    /\ current_exams' = << >>
    /\ current_songs' = << >>
    /\ DOMAIN courses' = DOMAIN courses
    /\ \A d \in DOMAIN courses :
         courses'[d] = IF current_course = Some(d)
                         THEN WithPending(WithPending(courses[d], "exams", current_exams),
                                          "songs", current_songs)
                         ELSE courses[d]

DroppedAfterUnknown ==
  pc = "done" =>
    \A k \in 1..Len(text) :
      (/\ text[k] \in ScopedLines
       /\ CourseBefore(text, k) > 0
       /\ text[CourseBefore(text, k)] \in UnrecognizedCourses)
        => ParseText(Remove(text, k)).courses = courses

UnknownCourse ==
  /\ [][\A i \in UnrecognizedCourses : UnknownCourseStep(i)]_vars
  /\ []DroppedAfterUnknown

\* a finished parse in which an unrecognized COURSE directive followed an
\* accepted EXAM line of an active course and was followed by a well-formed
\* LEVEL line: the exam is committed, the stars are unset
UnknownCourseWitness ==
  /\ pc = "done"
  /\ \E j \in 2..(Len(text) - 1) :
       /\ text[j] \in UnrecognizedCourses
       /\ text[j - 1] \in AcceptedExams
       /\ ActiveAt(text, j) # None
       /\ text[j + 1] \in LevelLines
       /\ LevelStars[text[j + 1]] # None
       /\ "exams" \in DOMAIN courses[ActiveAt(text, j)[1]]
       /\ courses[ActiveAt(text, j)[1]].stars = None

(***************************************************************************)
(* C10: two-phase commit.  A step that reads an EXAM or NEXTSONG line      *)
(* leaves the courses mapping as it is, and the exams and songs entries of *)
(* the course records change only in a step that reads a COURSE directive  *)
(* or in the end-of-input step.                                            *)
(***************************************************************************)
EntryOf(cs, d, key) ==
  IF d \in DOMAIN cs /\ key \in DOMAIN cs[d] THEN Some(cs[d][key]) ELSE None

EntriesChange ==
  \E d \in CourseNames, key \in {"exams", "songs"} :
    EntryOf(courses', d, key) # EntryOf(courses, d, key)

TwoPhaseStep ==
  /\ (\E i \in ExamLines \cup NextSongLines : text' = Append(text, i)) => courses' = courses
  /\ EntriesChange =>
       \/ pc = "scan" /\ pc' = "done" /\ text' = text
       \/ \E i \in CourseDirectives : text' = Append(text, i)

TwoPhase == [][TwoPhaseStep]_vars

\* an exam and at least one more exam or song are pending under a course
\* whose record has no exams or songs entry, while another course has a
\* committed exams entry
TwoPhaseWitness ==
  /\ pc = "scan"
  /\ current_course # None
  /\ Len(current_exams) + Len(current_songs) >= 2
  /\ current_exams # << >>
  /\ "exams" \notin DOMAIN courses[current_course[1]]
  /\ "songs" \notin DOMAIN courses[current_course[1]]
  /\ \E d \in DOMAIN courses : "exams" \in DOMAIN courses[d]

(***************************************************************************)
(* C11: the stars value of every course record is unset or a non-negative  *)
(* integer, in every state of the scan and in the final ParsedChart.       *)
(***************************************************************************)
StarsNonNegative ==
  \A d \in DOMAIN courses : courses[d].stars = None \/ courses[d].stars[1] >= 0

(***************************************************************************)
(* C12: the branch value of a course record is true exactly when a         *)
(* branch-start marker line was read while that course was the active      *)
(* course; a marker read under another course or under none never sets it. *)
(***************************************************************************)
MarkerSeenUnder(d) ==
  \E k \in 1..Len(text) : text[k] \in BranchLines /\ ActiveAt(text, k) = Some(d)

BranchIffMarker ==
  \A d \in DOMAIN courses : courses[d].branch <=> MarkerSeenUnder(d)

\* a finished parse with a marker before any course, a course with a
\* marker and a course without one
BranchIffMarkerWitness ==
  /\ pc = "done"
  /\ text # << >>
  /\ text[1] \in BranchLines
  /\ \E d, f \in DOMAIN courses : courses[d].branch /\ ~courses[f].branch

(***************************************************************************)
(* C13: a course record has an exams (songs) entry only if an accepted     *)
(* EXAM (NEXTSONG) line was read while that course was active, and an      *)
(* entry that is present is a non-empty list; a record has no other keys   *)
(* than stars, branch, exams and songs.                                    *)
(***************************************************************************)
ReadUnder(d, S) ==
  \E k \in 1..Len(text) : text[k] \in S /\ ActiveAt(text, k) = Some(d)

EntriesOnlyIfSeen ==
  \A d \in DOMAIN courses :
    /\ {"stars", "branch"} \subseteq DOMAIN courses[d]
    /\ DOMAIN courses[d] \subseteq {"stars", "branch", "exams", "songs"}
    /\ "exams" \in DOMAIN courses[d]
         => courses[d].exams # << >> /\ ReadUnder(d, AcceptedExams)
    /\ "songs" \in DOMAIN courses[d]
         => courses[d].songs # << >> /\ ReadUnder(d, GoodSongs)

\* a finished parse with a course that has an exams entry and no songs
\* entry, and a course whose record has neither although a NEXTSONG line
\* was read before the first COURSE directive
EntriesOnlyIfSeenWitness ==
  /\ pc = "done"
  /\ text # << >>
  /\ text[1] \in GoodSongs
  /\ \E d, f \in DOMAIN courses :
       /\ DOMAIN courses[d] = {"stars", "branch", "exams"}
       /\ DOMAIN courses[f] = {"stars", "branch"}

(***************************************************************************)
(* C14: a step that reads a blank line changes nothing, a step that reads  *)
(* a START or END marker line changes only in_song_section, and the flag   *)
(* is never read: the outcome of a parse is that of the same text without  *)
(* its blank and marker lines.                                             *)
(***************************************************************************)
BlankLines == {i \in Lines : LineText(i) = <<>>}

RECURSIVE WithoutBlanksAndMarkers(_)
WithoutBlanksAndMarkers(t) ==
  IF t = << >> THEN << >>
  ELSE (IF Head(t) \in BlankLines \cup MarkerLines THEN << >> ELSE <<Head(t)>>)
         \o WithoutBlanksAndMarkers(Tail(t))

\* the scanner state but the flag
ButFlag == <<pc, title, subtitle, title_ja, subtitle_ja, wave, offset,
             courses, current_course, current_exams, current_songs>>

InertStep ==
  \A i \in BlankLines \cup MarkerLines :
    text' = Append(text, i)
      => /\ ButFlag' = ButFlag
         /\ i \in BlankLines => in_song_section' = in_song_section

InertOutcome ==
  pc \in {"done", "failed"}
    => Chart(State) = Chart(ParseText(WithoutBlanksAndMarkers(text)))

InertLines == [][InertStep]_vars /\ []InertOutcome

\* a finished parse that read a START marker, then a COURSE directive and a
\* LEVEL line inside the section
InertLinesWitness ==
  /\ pc = "done"
  /\ in_song_section
  /\ Len(text) = 3
  /\ text[1] \in MarkerLines
  /\ text[2] \in RecognizedCourses
  /\ text[3] \in LevelLines
  /\ courses[current_course[1]].stars # None

(***************************************************************************)
(* C18: the stars of a course are those of the last LEVEL line read while  *)
(* that course was active: the integer of the first whitespace-delimited   *)
(* token of its value, unset when that token is no integer, and unset when *)
(* no LEVEL line was read under the course.                                *)
(***************************************************************************)
LevelsUnder(d) ==
  {k \in 1..Len(text) : text[k] \in LevelLines /\ ActiveAt(text, k) = Some(d)}

MaxOf(S) == CHOOSE k \in S : \A j \in S : j <= k

LastLevelWins ==
  \A d \in DOMAIN courses :
    courses[d].stars =
      IF LevelsUnder(d) = {} THEN None
      ELSE LevelStars[text[MaxOf(LevelsUnder(d))]]

\* a malformed LEVEL line was read after a well-formed one of the same
\* course: the stars are unset
LastLevelWinsWitness ==
  /\ pc = "scan"
  /\ Len(text) = 3
  /\ text[1] \in RecognizedCourses
  /\ text[2] \in LevelLines /\ LevelStars[text[2]] # None
  /\ text[3] \in LevelLines /\ LevelStars[text[3]] = None
  /\ courses[current_course[1]].stars = None

(***************************************************************************)
(* C19: in a finished parse the exams (songs) list of a course is the list *)
(* of the last of its blocks that holds an accepted EXAM (NEXTSONG) line;  *)
(* the record has no such entry when none of its blocks holds one.  A      *)
(* block runs from a COURSE directive to the next COURSE directive.        *)
(***************************************************************************)
BlockEnd(t, j) ==
  IF \E k \in (j + 1)..Len(t) : t[k] \in CourseDirectives
    THEN (CHOOSE k \in (j + 1)..Len(t) :
            t[k] \in CourseDirectives
            /\ \A m \in (j + 1)..(k - 1) : t[m] \notin CourseDirectives) - 1
    ELSE Len(t)

Block(t, j) == SubSeq(t, j + 1, BlockEnd(t, j))

BlocksOf(d) ==
  {j \in 1..Len(text) : text[j] \in RecognizedCourses /\ NamedCourse(text[j]) = Some(d)}

ExamBlocks(d) == {j \in BlocksOf(d) : ExamsIn(Block(text, j)) # << >>}

SongBlocks(d) == {j \in BlocksOf(d) : SongsIn(Block(text, j)) # << >>}

LastBlockWins ==
  pc = "done" =>
    \A d \in DOMAIN courses :
      /\ EntryOf(courses, d, "exams") =
           IF ExamBlocks(d) = {} THEN None
           ELSE Some(ExamsIn(Block(text, MaxOf(ExamBlocks(d)))))
      /\ EntryOf(courses, d, "songs") =
           IF SongBlocks(d) = {} THEN None
           ELSE Some(SongsIn(Block(text, MaxOf(SongBlocks(d)))))

\* a finished parse of a text with three blocks of one course: an exam in
\* the first, another exam in the second, none in the third
LastBlockWinsWitness ==
  /\ pc = "done"
  /\ \E d \in DOMAIN courses :
       /\ Cardinality(BlocksOf(d)) = 3
       /\ Cardinality(ExamBlocks(d)) = 2
       /\ MaxOf(ExamBlocks(d)) < MaxOf(BlocksOf(d))
       /\ \E j \in ExamBlocks(d) :
            ExamsIn(Block(text, j)) # ExamsIn(Block(text, MaxOf(ExamBlocks(d))))
       /\ Len(courses[d].exams) = 1

(***************************************************************************)
(* C20: monotonicity over the scan.  In every step the course records that *)
(* exist stay, a branch value that is true stays true, and an exams or     *)
(* songs entry that is present stays present with a non-empty list.        *)
(***************************************************************************)
MonotoneStep ==
  /\ DOMAIN courses \subseteq DOMAIN courses'
  /\ \A d \in DOMAIN courses :
       /\ courses[d].branch => courses'[d].branch
       /\ \A key \in {"exams", "songs"} :
            key \in DOMAIN courses[d]
              => key \in DOMAIN courses'[d] /\ courses'[d][key] # << >>

Monotone == [][MonotoneStep]_vars

\* a course whose record has branch true and a committed exams entry was
\* declared again after another course
MonotoneWitness ==
  /\ pc = "scan"
  /\ Len(text) >= 4
  /\ Last(text) \in RecognizedCourses
  /\ text[Len(text) - 1] \in RecognizedCourses
  /\ NamedCourse(text[Len(text) - 1]) # NamedCourse(Last(text))
  /\ courses[current_course[1]].branch
  /\ "exams" \in DOMAIN courses[current_course[1]]

(***************************************************************************)
(* C15: the courses table of the document has exactly the keys easy,       *)
(* normal, hard, oni, ura, dan and tower; an entry is the course's record  *)
(* when the course is in the ParsedChart and None otherwise; and after the *)
(* document is made the ParsedChart is still the parse of the text.        *)
(***************************************************************************)
CourseTable ==
  doc # None =>
    /\ DOMAIN doc[1].courses = CourseNames
    /\ \A name \in CourseNames :
         doc[1].courses[name] =
           IF name \in DOMAIN courses THEN Some(courses[name]) ELSE None
    /\ Chart(State) = Chart(ParseText(text))

\* a document of a chart with a course that has an exams entry, a course
\* with unset stars and no entry, and five courses that are absent
CourseTableWitness ==
  /\ doc # None
  /\ Cardinality(DOMAIN courses) = 2
  /\ \E d, f \in DOMAIN courses :
       /\ "exams" \in DOMAIN doc[1].courses[d][1]
       /\ doc[1].courses[f][1] = NewCourse
  /\ Cardinality({name \in CourseNames : doc[1].courses[name] = None}) = 5

(***************************************************************************)
(* C16: the offset of the document is 0, and the document is the one made  *)
(* with the same id and creation time from the chart with any other parsed *)
(* OFFSET value, set or unset.                                             *)
(***************************************************************************)
OffsetValues ==
  {None, Some(FloatZero)} \cup
    {ParseFloat(ValOf(i)) : i \in {j \in KeyValueLines : KeyOf(j) = OFFSET}}

OffsetIgnored ==
  doc # None =>
    /\ doc[1].offset = FloatZero
    /\ \A o \in OffsetValues :
         ToMongoDoc([State EXCEPT !.offset = o], doc[1].id, doc[1].created_ns) = doc[1]

\* a document of a chart whose parsed OFFSET is set and not 0
OffsetIgnoredWitness ==
  /\ doc # None
  /\ offset # None
  /\ offset # Some(FloatZero)
  /\ Cardinality(OffsetValues) >= 3

(***************************************************************************)
(* C17: the dispatch of a line is exclusive, in the order NEXTSONG, START, *)
(* END, key:value, branch marker.  A NEXTSONG line is read as a song and a *)
(* START or END line as a marker even when it holds a colon, changing no   *)
(* scalar field, course record, active course or pending exam; and a line  *)
(* that holds a colon never changes a branch value.                        *)
(***************************************************************************)
KeyValueState == <<title, subtitle, title_ja, subtitle_ja, wave, offset,
                   courses, current_course, current_exams>>

DispatchStep(i) ==
  text' = Append(text, i) =>
    /\ i \in NextSongLines \cup MarkerLines => KeyValueState' = KeyValueState
    /\ i \in GoodSongs => Len(current_songs') = Len(current_songs) + 1
    /\ i \in MarkerLines =>
         /\ current_songs' = current_songs
         /\ in_song_section' = StartsWith(Upper(LineText(i)), START)
    /\ i \in ColonLines =>
         \A d \in DOMAIN courses :
           d \in DOMAIN courses' /\ courses'[d].branch = courses[d].branch

Dispatch == [][\A i \in Lines : DispatchStep(i)]_vars

\* under an active course a NEXTSONG line that holds a colon was read as a
\* song, then a #BRANCHSTART line that holds a colon left branch false
DispatchWitness ==
  /\ pc = "scan"
  /\ Len(text) = 3
  /\ text[1] \in RecognizedCourses
  /\ text[2] \in GoodSongs /\ text[2] \in ColonLines
  /\ StartsWith(LineText(text[3]), <<Hash>> \o BRANCHSTART)
  /\ text[3] \in ColonLines
  /\ Len(current_songs) = 1
  /\ ~courses[current_course[1]].branch

====
